---------------------------- MODULE Spec2Model ----------------------------
(***************************************************************************)
(* Model of the PrivaSee consistent replacement and masking engine:        *)
(*   backend/app/services/mapping_manager.py  (MappingManager)             *)
(*   backend/app/main.py                      (batch pipeline)             *)
(*   backend/app/services/pdf_processor.py    (page conversion)            *)
(*                                                                         *)
(* Python str values are modelled as sequences of one-character strings,   *)
(* Python dict values as functions with a finite domain.                   *)
(***************************************************************************)
EXTENDS Integers, Sequences, FiniteSets, TLC

VARIABLES
    mm,         \* scope id -> MappingManager object [mappings, counter]
    last,       \* the last call made on a MappingManager and what it returned
    firstRet,   \* scope id -> normalized key -> value returned by the first lookup
    issued,     \* scope id -> entity_type -> labels generated, in order
    manual,     \* scope id -> normalized key -> value of the add_manual_mapping in force
    nT,         \* normalize_text harness: the text T
    nV,         \* normalize_text harness: the variant T'
    nEdits,     \* normalize_text harness: number of edits applied to T'
    nKeyT,      \* normalize_text harness: normalize_text(T)
    nKeyV,      \* normalize_text harness: normalize_text(T')
    nDone,      \* normalize_text harness: both keys computed
    bN,                  \* process_batch: number of PDFs in the folder (pdf_files)
    pc,                  \* process_batch: where the coroutine stands
    doc,                 \* process_batch: index of the PDF being processed
    image_paths,         \* process_single_batch_document: page images of the PDF
    masked_image_paths,  \* process_single_batch_document: masked page images
    all_entities,        \* process_single_batch_document: entities with replacements
    page,                \* process_single_batch_document: index of the page loops
    full_masked_text,    \* verify_masking_quality: text re-extracted so far
    detected,            \* the candidates the detector returned for this PDF, in order
    files,               \* the files that exist in TEMP_IMAGE_DIR
    pdfs,                \* the output PDFs written beside the originals
    results,             \* process_batch: the BatchDocumentResult records so far
    response,            \* process_batch: the BatchResponse, once returned
    mk_pc,               \* one-page session: "new", "processed" or "masked"
    img_size,            \* one-page session: <<width, height>> of the page image
    session_entities,    \* one-page session: session["entities"]
    painted,             \* one-page session: what apply_masks drew, in order
    sessions,            \* the session store of main.py: session id -> session dict
    fn_in,               \* function harness: the arguments of the call
    fn_out               \* function harness: what the call returned

mapVars  == <<mm, last, firstRet, issued, manual>>
normVars == <<nT, nV, nEdits, nKeyT, nKeyV, nDone>>
batchVars == <<bN, pc, doc, image_paths, masked_image_paths, all_entities, page,
               full_masked_text, detected, files, pdfs, results, response>>
maskVars == <<mk_pc, img_size, session_entities, painted, sessions>>
fnVars   == <<fn_in, fn_out>>
vars     == <<mm, last, firstRet, issued, manual, nT, nV, nEdits, nKeyT, nKeyV, nDone,
              bN, pc, doc, image_paths, masked_image_paths, all_entities, page,
              full_masked_text, detected, files, pdfs, results, response,
              mk_pc, img_size, session_entities, painted, sessions, fn_in, fn_out>>

-----------------------------------------------------------------------------
(* Python str helpers *)

UpperChars == <<"A","B","C","D","E","F","G","H","I","J","K","L","M",
                "N","O","P","Q","R","S","T","U","V","W","X","Y","Z">>
LowerChars == <<"a","b","c","d","e","f","g","h","i","j","k","l","m",
                "n","o","p","q","r","s","t","u","v","w","x","y","z">>
DigitChars == <<"0","1","2","3","4","5","6","7","8","9">>

\* str.split() with no argument splits on runs of these
Whitespace == {" ", "\t", "\n"}

\* the character class of the re.sub in normalize_text
Punctuation == {".", ",", "!", "?", ";", ":", "'", "\"", "(", ")"}

IsUpper(c) == \E i \in 1..26 : UpperChars[i] = c
IsLower(c) == \E i \in 1..26 : LowerChars[i] = c

LowerChar(c) ==
    IF IsUpper(c) THEN LowerChars[CHOOSE i \in 1..26 : UpperChars[i] = c] ELSE c

UpperChar(c) ==
    IF IsLower(c) THEN UpperChars[CHOOSE i \in 1..26 : LowerChars[i] = c] ELSE c

\* str.lower()
Lower(s) == [i \in 1..Len(s) |-> LowerChar(s[i])]

RECURSIVE SplitFrom(_, _, _, _)
SplitFrom(s, i, cur, acc) ==
    IF i > Len(s)
    THEN IF cur = <<>> THEN acc ELSE Append(acc, cur)
    ELSE IF s[i] \in Whitespace
         THEN SplitFrom(s, i + 1, <<>>, IF cur = <<>> THEN acc ELSE Append(acc, cur))
         ELSE SplitFrom(s, i + 1, Append(cur, s[i]), acc)

\* str.split(): the maximal whitespace-free tokens, in order
Split(s) == SplitFrom(s, 1, <<>>, <<>>)

RECURSIVE Join(_, _)
\* sep.join(tokens)
Join(sep, tokens) ==
    IF tokens = <<>> THEN <<>>
    ELSE IF Len(tokens) = 1 THEN tokens[1]
    ELSE tokens[1] \o sep \o Join(sep, Tail(tokens))

RECURSIVE LStrip(_)
LStrip(s) == IF s # <<>> /\ Head(s) \in Whitespace THEN LStrip(Tail(s)) ELSE s

RECURSIVE RStrip(_)
RStrip(s) ==
    IF s # <<>> /\ s[Len(s)] \in Whitespace THEN RStrip(SubSeq(s, 1, Len(s) - 1)) ELSE s

\* str.strip()
Strip(s) == RStrip(LStrip(s))

NotPunctuation(c) == c \notin Punctuation

\* re.sub(r'[.,!?;:\'"()]', '', s)
RemovePunctuation(s) == SelectSeq(s, NotPunctuation)

\* needle in haystack
Contains(haystack, needle) ==
    \E i \in 0..(Len(haystack) - Len(needle)) :
        SubSeq(haystack, i + 1, i + Len(needle)) = needle

\* str.replace(old, new) for one-character old and new
ReplaceChar(s, old, new) == [i \in 1..Len(s) |-> IF s[i] = old THEN new ELSE s[i]]

\* chr(n) on the code points the label generator can reach
Chr(n) ==
    IF n \in 65..90 THEN UpperChars[n - 64]
    ELSE IF n = 64 THEN "@"
    ELSE IF n = 91 THEN "["
    ELSE "?"

RECURSIVE Str(_)
\* str(n) for a non-negative int
Str(n) == IF n < 10 THEN <<DigitChars[n + 1]>> ELSE Append(Str(n \div 10), DigitChars[(n % 10) + 1])

-----------------------------------------------------------------------------
(* MappingManager.normalize_text *)

normalize_text(text) ==
    LET lowered   == Lower(text)
        collapsed == Join(<<" ">>, Split(lowered))
        nopunct   == RemovePunctuation(collapsed)
    IN  Strip(nopunct)

-----------------------------------------------------------------------------
(* MappingManager: one mapping scope *)

\* a dict with no entry
EmptyDict == <<>>

\* d[k] = v
DictPut(d, k, v) == [x \in (DOMAIN d) \cup {k} |-> IF x = k THEN v ELSE d[x]]

\* del d[k]
DictDel(d, k) == [x \in (DOMAIN d) \ {k} |-> d[x]]

\* d.get(k, default)
DictGet(d, k, default) == IF k \in DOMAIN d THEN d[k] ELSE default

\* the sentinel of the Black Out strategy
REDACTED == <<"[","R","E","D","A","C","T","E","D","]">>

\* __init__ with the dict a class attribute that other objects have written to
NewMappingManagerShared ==
    [mappings |-> (<<"j"," ","d">> :> REDACTED), counter |-> EmptyDict]

\* MappingManager.__init__
NewMappingManager == [mappings |-> EmptyDict, counter |-> EmptyDict]

\* MappingManager._generate_fake_data: every rule returns a value drawn by Faker;
\* draw is that value
generate_fake_data(entity_type, original_text, draw) == draw

\* generate_entity_label with the counter kept per label prefix instead of per entity type
generate_entity_label_prefix_counter(self, entity_type) ==
    LET label_prefix == ReplaceChar(ReplaceChar(entity_type, " ", "_"), "-", "_")
        count        == DictGet(self.counter, label_prefix, 0) + 1
        suffix       == IF count <= 26 THEN <<Chr(64 + count)>> ELSE Str(count)
    IN  [self |-> [self EXCEPT !.counter = DictPut(self.counter, label_prefix, count)],
         ret  |-> label_prefix \o <<"_">> \o suffix]

\* generate_entity_label with the letter range cut one short (count < 26)
generate_entity_label_short_alphabet(self, entity_type) ==
    LET count        == DictGet(self.counter, entity_type, 0) + 1
        label_prefix == ReplaceChar(ReplaceChar(entity_type, " ", "_"), "-", "_")
        suffix       == IF count < 26 THEN <<Chr(64 + count)>> ELSE Str(count)
    IN  [self |-> [self EXCEPT !.counter = DictPut(self.counter, entity_type, count)],
         ret  |-> label_prefix \o <<"_">> \o suffix]

\* MappingManager._generate_entity_label: the object after the call and the label
generate_entity_label(self, entity_type) ==
    LET counter0     == IF entity_type \notin DOMAIN self.counter
                        THEN DictPut(self.counter, entity_type, 0)
                        ELSE self.counter
        counter1     == DictPut(counter0, entity_type, counter0[entity_type] + 1)
        count        == counter1[entity_type]
        label_prefix == ReplaceChar(ReplaceChar(entity_type, " ", "_"), "-", "_")
        suffix       == IF count <= 26 THEN <<Chr(64 + count)>> ELSE Str(count)
    IN  [self |-> [self EXCEPT !.counter = counter1],
         ret  |-> label_prefix \o <<"_">> \o suffix]

\* get_replacement with the cache keyed by the raw text instead of the normalized text
get_replacement_raw_key(self, entity_type, original_text, strategy, draw) ==
    IF original_text \in DOMAIN self.mappings
    THEN [self |-> self, ret |-> self.mappings[original_text],
          hit |-> TRUE, labelled |-> FALSE]
    ELSE LET gen ==
               IF strategy = "fake_name" \/ strategy = "Fake Data"
               THEN [self |-> self,
                     ret |-> generate_fake_data(entity_type, original_text, draw),
                     labelled |-> FALSE]
               ELSE IF strategy = "redact" \/ strategy = "Black Out"
               THEN [self |-> self, ret |-> REDACTED, labelled |-> FALSE]
               ELSE [self |-> generate_entity_label(self, entity_type).self,
                     ret |-> generate_entity_label(self, entity_type).ret,
                     labelled |-> TRUE]
         IN  [self |-> [gen.self EXCEPT
                           !.mappings = DictPut(gen.self.mappings, original_text, gen.ret)],
              ret |-> gen.ret, hit |-> FALSE, labelled |-> gen.labelled]

\* get_replacement with the label counter advanced before the cache is looked at
get_replacement_counts_on_hit(self, entity_type, original_text, strategy, draw) ==
    LET normalized == normalize_text(original_text)
    IN  IF normalized \in DOMAIN self.mappings
        THEN [self |-> generate_entity_label(self, entity_type).self,
              ret |-> self.mappings[normalized], hit |-> TRUE, labelled |-> FALSE]
        ELSE LET gen ==
                   IF strategy = "fake_name" \/ strategy = "Fake Data"
                   THEN [self |-> self,
                         ret |-> generate_fake_data(entity_type, original_text, draw),
                         labelled |-> FALSE]
                   ELSE IF strategy = "redact" \/ strategy = "Black Out"
                   THEN [self |-> self, ret |-> REDACTED, labelled |-> FALSE]
                   ELSE IF strategy = "entity_label" \/ strategy = "Entity Label"
                   THEN [self |-> generate_entity_label(self, entity_type).self,
                         ret |-> generate_entity_label(self, entity_type).ret,
                         labelled |-> TRUE]
                   ELSE [self |-> generate_entity_label(self, entity_type).self,
                         ret |-> generate_entity_label(self, entity_type).ret,
                         labelled |-> TRUE]
             IN  [self |-> [gen.self EXCEPT
                               !.mappings = DictPut(gen.self.mappings, normalized, gen.ret)],
                  ret |-> gen.ret, hit |-> FALSE, labelled |-> gen.labelled]

\* MappingManager.get_replacement: the object after the call, the value returned,
\* whether the cache was hit and whether a label was generated
get_replacement(self, entity_type, original_text, strategy, draw) ==
    LET normalized == normalize_text(original_text)
    IN  IF normalized \in DOMAIN self.mappings
        THEN [self |-> self, ret |-> self.mappings[normalized],
              hit |-> TRUE, labelled |-> FALSE]
        ELSE LET gen ==
                   IF strategy = "fake_name" \/ strategy = "Fake Data"
                   THEN [self |-> self,
                         ret |-> generate_fake_data(entity_type, original_text, draw),
                         labelled |-> FALSE]
                   ELSE IF strategy = "redact" \/ strategy = "Black Out"
                   THEN [self |-> self, ret |-> REDACTED, labelled |-> FALSE]
                   ELSE IF strategy = "entity_label" \/ strategy = "Entity Label"
                   THEN [self |-> generate_entity_label(self, entity_type).self,
                         ret |-> generate_entity_label(self, entity_type).ret,
                         labelled |-> TRUE]
                   ELSE [self |-> generate_entity_label(self, entity_type).self,
                         ret |-> generate_entity_label(self, entity_type).ret,
                         labelled |-> TRUE]
             IN  [self |-> [gen.self EXCEPT
                               !.mappings = DictPut(gen.self.mappings, normalized, gen.ret)],
                  ret |-> gen.ret, hit |-> FALSE, labelled |-> gen.labelled]

\* add_manual_mapping storing under the text as given
add_manual_mapping_raw_key(self, original_text, replacement) ==
    [self EXCEPT !.mappings = DictPut(self.mappings, original_text, replacement)]

\* MappingManager.add_manual_mapping: the object after the call
add_manual_mapping(self, original_text, replacement) ==
    [self EXCEPT !.mappings = DictPut(self.mappings, normalize_text(original_text), replacement)]

\* clear_mappings without self.counter.clear()
clear_mappings_keep_counter(self) == [self EXCEPT !.mappings = EmptyDict]

\* MappingManager.clear_mappings: the object after the call
clear_mappings(self) == [self EXCEPT !.mappings = EmptyDict, !.counter = EmptyDict]

-----------------------------------------------------------------------------
(* The calls a client makes on MappingManager objects *)

\* the MappingManager objects the harness calls
Scopes == {1}

\* original texts: "J D", "j  d.", "B"
TxtJD      == <<"J"," ","D">>
TxtJDloud  == <<"j"," "," ","d",".">>
TxtB       == <<"B">>
Texts      == {TxtJD, TxtJDloud, TxtB}

\* entity types: "I D", "I-D"
CatIDspace == <<"I"," ","D">>
CatIDdash  == <<"I","-","D">>
Categories == {CatIDspace, CatIDdash}

\* strategy strings: the three of ReplacementStrategy and an unknown one
Strategies == {"Fake Data", "Black Out", "Entity Label", "bogus"}

\* values Faker may draw
FakePool == {<<"F","1">>, <<"F","2">>}

\* Faker is consulted by the Fake Data strategy alone
Draws(strategy) == IF strategy \in {"Fake Data", "fake_name"} THEN FakePool ELSE {<<>>}

\* replacement texts a user may enter by hand
ManualPool == {<<"M">>, <<"N">>}

NoText == <<>>
NoCall == [op |-> "none", scope |-> 0, entity_type |-> NoText, original_text |-> NoText,
           strategy |-> "", ret |-> NoText, hit |-> FALSE, labelled |-> FALSE]

MapInit ==
    /\ mm = [s \in Scopes |-> NewMappingManager]
    /\ last = NoCall
    /\ firstRet = [s \in Scopes |-> EmptyDict]
    /\ issued = [s \in Scopes |-> EmptyDict]
    /\ manual = [s \in Scopes |-> EmptyDict]

NormIdle ==
    /\ nT = <<>>
    /\ nV = <<>>
    /\ nEdits = 0
    /\ nKeyT = <<>>
    /\ nKeyV = <<>>
    /\ nDone = FALSE

BatchIdle ==
    /\ bN = 0
    /\ pc = "idle"
    /\ doc = 0
    /\ image_paths = <<>>
    /\ masked_image_paths = <<>>
    /\ all_entities = <<>>
    /\ page = 0
    /\ full_masked_text = <<>>
    /\ detected = <<>>
    /\ files = {}
    /\ pdfs = {}
    /\ results = <<>>
    /\ response = [status |-> "none"]

MaskIdle ==
    /\ mk_pc = "idle"
    /\ img_size = <<0, 0>>
    /\ session_entities = <<>>
    /\ painted = <<>>
    /\ sessions = EmptyDict

FnIdle ==
    /\ fn_in = <<>>
    /\ fn_out = <<>>

\* one call of get_replacement on scope s
GetReplacement(s, entity_type, original_text, strategy, draw) ==
    LET r   == get_replacement(mm[s], entity_type, original_text, strategy, draw)
        key == normalize_text(original_text)
    IN  /\ mm' = [mm EXCEPT ![s] = r.self]
        /\ last' = [op |-> "get_replacement", scope |-> s, entity_type |-> entity_type,
                    original_text |-> original_text, strategy |-> strategy,
                    ret |-> r.ret, hit |-> r.hit, labelled |-> r.labelled]
        /\ firstRet' = IF key \in DOMAIN firstRet[s] THEN firstRet
                       ELSE [firstRet EXCEPT ![s] = DictPut(@, key, r.ret)]
        /\ issued' = IF r.labelled
                     THEN [issued EXCEPT ![s] =
                             DictPut(@, entity_type,
                                     Append(DictGet(@, entity_type, <<>>), r.ret))]
                     ELSE issued
        /\ UNCHANGED manual
        /\ UNCHANGED normVars
        /\ UNCHANGED maskVars
        /\ UNCHANGED fnVars
        /\ UNCHANGED batchVars

\* one call of add_manual_mapping on scope s
AddManualMapping(s, original_text, replacement) ==
    /\ mm' = [mm EXCEPT ![s] = add_manual_mapping(mm[s], original_text, replacement)]
    /\ last' = [NoCall EXCEPT !.op = "add_manual_mapping", !.scope = s,
                              !.original_text = original_text, !.ret = replacement]
    /\ firstRet' = [firstRet EXCEPT ![s] = DictDel(@, normalize_text(original_text))]
    /\ manual' = [manual EXCEPT ![s] = DictPut(@, normalize_text(original_text), replacement)]
    /\ UNCHANGED issued
    /\ UNCHANGED normVars
    /\ UNCHANGED maskVars
    /\ UNCHANGED fnVars
    /\ UNCHANGED batchVars

\* one call of clear_mappings on scope s
ClearMappings(s) ==
    /\ mm[s] # NewMappingManager
    /\ mm' = [mm EXCEPT ![s] = clear_mappings(mm[s])]
    /\ last' = [NoCall EXCEPT !.op = "clear_mappings", !.scope = s]
    /\ firstRet' = [firstRet EXCEPT ![s] = EmptyDict]
    /\ issued' = [issued EXCEPT ![s] = EmptyDict]
    /\ manual' = [manual EXCEPT ![s] = EmptyDict]
    /\ UNCHANGED normVars
    /\ UNCHANGED maskVars
    /\ UNCHANGED fnVars
    /\ UNCHANGED batchVars

Init == MapInit /\ NormIdle /\ BatchIdle /\ MaskIdle /\ FnIdle

Next ==
    \/ \E s \in Scopes, c \in Categories, t \in Texts, st \in Strategies :
          \E d \in Draws(st) : GetReplacement(s, c, t, st, d)
    \/ \E s \in Scopes, t \in Texts, r \in ManualPool : AddManualMapping(s, t, r)
    \/ \E s \in Scopes : ClearMappings(s)

Spec == Init /\ [][Next]_vars

-----------------------------------------------------------------------------
(* Claims about one mapping scope, checked under Spec *)

\* C1: memoization. A get_replacement call that returns r for text T leaves
\* mappings[normalize_text(T)] = r, and r is the value the first lookup of that key
\* returned since the last add_manual_mapping of the key or clear_mappings.
C1_Memoization ==
    last.op = "get_replacement" =>
        LET key == normalize_text(last.original_text)
        IN  /\ key \in DOMAIN mm[last.scope].mappings
            /\ mm[last.scope].mappings[key] = last.ret
            /\ key \in DOMAIN firstRet[last.scope]
            /\ firstRet[last.scope][key] = last.ret

\* a second lookup, by a variant spelling and another strategy, returned the fake value
\* drawn at the first sighting
C1_Witness ==
    /\ last.op = "get_replacement"
    /\ last.hit
    /\ last.original_text = TxtJDloud
    /\ last.strategy = "Entity Label"
    /\ last.ret \in FakePool

\* C25: a get_replacement call whose normalized text is already a key of the map returns
\* the stored value and leaves every map entry and every counter of every scope as it
\* was, whatever entity type and strategy are passed.
C25_CacheHitChangesNothing ==
    [][ /\ last'.op = "get_replacement"
        /\ normalize_text(last'.original_text) \in DOMAIN mm[last'.scope].mappings
        => /\ last'.ret = mm[last'.scope].mappings[normalize_text(last'.original_text)]
           /\ mm' = mm
      ]_vars

\* "J D" asked for as an "I-D" under Entity Label returned the fake value stored for
\* "j d", and no label was ever counted
C25_Witness ==
    /\ last.op = "get_replacement"
    /\ last.hit
    /\ last.original_text = TxtJD
    /\ last.entity_type = CatIDdash
    /\ last.strategy = "Entity Label"
    /\ last.ret \in FakePool
    /\ mm[last.scope].counter = EmptyDict
\* the labels generated in scope s since it was last cleared
IssuedLabels(s) ==
    UNION {{issued[s][c][i] : i \in 1..Len(issued[s][c])} : c \in DOMAIN issued[s]}

\* C26: in one scope no label generated under Entity Label is the replacement of two
\* texts with different normalized keys, also when the two texts belong to different
\* entity types.
C26_LabelsUniqueInScope ==
    \A s \in Scopes : \A k1, k2 \in DOMAIN mm[s].mappings :
        /\ k1 # k2
        /\ mm[s].mappings[k1] \in IssuedLabels(s)
        => mm[s].mappings[k1] # mm[s].mappings[k2]
CounterOf(self, c) == DictGet(self.counter, c, 0)

NoDuplicates(seq) == \A i, j \in 1..Len(seq) : seq[i] = seq[j] => i = j

\* C4: without clear_mappings, the counter of every entity type grows by exactly 1 on
\* a cache miss resolved by Entity Label or by an unknown strategy string, and is left
\* unchanged by every other call; no label of one entity type is generated twice.
C4_CounterMonotonic ==
    [][ last'.op # "clear_mappings" =>
          \A s \in Scopes : \A c \in Categories :
            LET miss == /\ last'.op = "get_replacement"
                        /\ last'.scope = s
                        /\ normalize_text(last'.original_text) \notin DOMAIN mm[s].mappings
                grows == /\ miss
                         /\ last'.entity_type = c
                         /\ last'.strategy \notin {"Fake Data", "fake_name", "Black Out", "redact"}
            IN  /\ CounterOf(mm'[s], c) = CounterOf(mm[s], c) + (IF grows THEN 1 ELSE 0)
                /\ NoDuplicates(DictGet(issued'[s], c, <<>>))
      ]_vars

\* an unknown strategy string took the counter of an entity type to 2
C4_Witness ==
    /\ last.op = "get_replacement"
    /\ last.strategy = "bogus"
    /\ ~last.hit
    /\ CounterOf(mm[last.scope], last.entity_type) = 2

-----------------------------------------------------------------------------
(* normalize_text on a text and its case, whitespace and punctuation variants *)

\* characters of the texts: a lower-case letter, an upper-case letter, a blank, a dot
NormAlphabet == {"a", "B", " ", "."}

\* longest text T
MaxNormLen == 3

\* most edits that turn T into the variant T'
MaxEdits == 2

NormTexts == UNION {[1..n -> NormAlphabet] : n \in 0..MaxNormLen}

InsertAt(s, i, c) == SubSeq(s, 1, i) \o <<c>> \o SubSeq(s, i + 1, Len(s))
DeleteAt(s, i) == SubSeq(s, 1, i - 1) \o SubSeq(s, i + 1, Len(s))
SwapCase(c) == IF IsUpper(c) THEN LowerChar(c) ELSE UpperChar(c)

\* position i (0..Len) of s lies inside or next to a run of whitespace, or at an end
AtWhitespaceRun(s, i) ==
    IF i = 0 \/ i = Len(s) THEN TRUE
    ELSE s[i] \in Whitespace \/ s[i + 1] \in Whitespace

MapIdle ==
    /\ mm = [s \in Scopes |-> NewMappingManager]
    /\ last = NoCall
    /\ firstRet = [s \in Scopes |-> EmptyDict]
    /\ issued = [s \in Scopes |-> EmptyDict]
    /\ manual = [s \in Scopes |-> EmptyDict]

NormInit ==
    /\ MapIdle
    /\ BatchIdle
    /\ MaskIdle
    /\ FnIdle
    /\ nT \in NormTexts
    /\ nV = nT
    /\ nEdits = 0
    /\ nKeyT = <<>>
    /\ nKeyV = <<>>
    /\ nDone = FALSE

Edit(v) ==
    /\ ~nDone
    /\ nEdits < MaxEdits
    /\ nV' = v
    /\ nEdits' = nEdits + 1
    /\ UNCHANGED <<nT, nKeyT, nKeyV, nDone>>
    /\ UNCHANGED mapVars
    /\ UNCHANGED batchVars
    /\ UNCHANGED maskVars
    /\ UNCHANGED fnVars

\* T' differs from T in the case of a letter
VaryCase ==
    \E i \in 1..Len(nV) :
        /\ IsUpper(nV[i]) \/ IsLower(nV[i])
        /\ Edit([nV EXCEPT ![i] = SwapCase(nV[i])])

\* T' differs from T in the length of a run of whitespace, or in whitespace at an end
VaryWhitespace ==
    \/ \E i \in 0..Len(nV), w \in Whitespace \cap NormAlphabet :
          /\ AtWhitespaceRun(nV, i)
          /\ Edit(InsertAt(nV, i, w))
    \/ \E i \in 1..Len(nV) :
          /\ nV[i] \in Whitespace
          /\ IF i = 1 \/ i = Len(nV) THEN TRUE
             ELSE nV[i - 1] \in Whitespace \/ nV[i + 1] \in Whitespace
          /\ Edit(DeleteAt(nV, i))

\* T' differs from T in the presence of a punctuation character
VaryPunctuation ==
    \/ \E i \in 0..Len(nV), p \in Punctuation \cap NormAlphabet : Edit(InsertAt(nV, i, p))
    \/ \E i \in 1..Len(nV) :
          /\ nV[i] \in Punctuation
          /\ Edit(DeleteAt(nV, i))

\* both texts are normalized
Normalize ==
    /\ ~nDone
    /\ nKeyT' = normalize_text(nT)
    /\ nKeyV' = normalize_text(nV)
    /\ nDone' = TRUE
    /\ UNCHANGED <<nT, nV, nEdits>>
    /\ UNCHANGED mapVars
    /\ UNCHANGED batchVars
    /\ UNCHANGED maskVars
    /\ UNCHANGED fnVars

NormNext == VaryCase \/ VaryWhitespace \/ VaryPunctuation \/ Normalize

SpecNorm == NormInit /\ [][NormNext]_vars

\* C2: a text and a variant of it that differs only in letter case, in the amount of
\* whitespace or in the presence of punctuation characters have the same normalized key.
C2_VariantsShareKey == nDone => nKeyT = nKeyV

-----------------------------------------------------------------------------
(* Long runs of Entity Label requests, checked under SpecLabel *)

\* most first sightings of entity type "I D"
MaxLabels == 27

\* most first sightings of entity type "SSN", requested in between
MaxOtherLabels == 2

CatSSN == <<"S","S","N">>
LabelCats == {CatIDspace, CatSSN}
LabelBound(c) == IF c = CatIDspace THEN MaxLabels ELSE MaxOtherLabels

\* the k-th distinct text of an entity type: its first letter and the numeral of k
FreshText(c, k) == <<c[1]>> \o Str(k)

\* how many texts of entity type c the scope has seen
Seen(c) == Len(DictGet(issued[1], c, <<>>))

\* a first sighting under Entity Label or an unknown strategy
RequestFresh ==
    \E c \in LabelCats, st \in {"Entity Label", "bogus"} :
        /\ Seen(c) < LabelBound(c)
        /\ GetReplacement(1, c, FreshText(c, Seen(c) + 1), st, <<>>)

\* a repeated sighting, whatever the strategy
RequestSeen ==
    \E c \in LabelCats, st \in {"Entity Label", "Black Out"} :
        /\ Seen(c) > 0
        /\ GetReplacement(1, c, FreshText(c, Seen(c)), st, <<>>)

LabelInit == MapInit /\ NormIdle /\ BatchIdle /\ MaskIdle /\ FnIdle

LabelNext == RequestFresh \/ RequestSeen

SpecLabel == LabelInit /\ [][LabelNext]_vars

\* the label the claim expects for the k-th first sighting of entity type c
ExpectedPrefix(c) == [i \in 1..Len(c) |-> IF c[i] \in {" ", "-"} THEN "_" ELSE c[i]]
ExpectedSuffix(k) ==
    IF k <= 26 THEN <<UpperChars[k]>>
    ELSE <<DigitChars[(k \div 10) + 1], DigitChars[(k % 10) + 1]>>
ExpectedLabel(c, k) == ExpectedPrefix(c) \o <<"_">> \o ExpectedSuffix(k)

\* C3: in a scope that started empty, the k-th text of entity type C first seen under
\* Entity Label gets the label prefix(C) _ suffix(k): letters A..Z for k <= 26, the
\* decimal numeral of k beyond; the labels of one entity type are pairwise distinct.
C3_LabelSequence ==
    \A c \in DOMAIN issued[1] :
        /\ \A k \in 1..Len(issued[1][c]) :
              /\ issued[1][c][k] = ExpectedLabel(c, k)
              /\ mm[1].mappings[normalize_text(FreshText(c, k))] = issued[1][c][k]
        /\ NoDuplicates(issued[1][c])

\* the 27th first sighting of "I D" has just been labelled I_D_27
C3_Witness ==
    /\ last.op = "get_replacement"
    /\ last.entity_type = CatIDspace
    /\ last.ret = <<"I","_","D","_","2","7">>
    /\ Len(issued[1][CatIDspace]) = 27

-----------------------------------------------------------------------------
(* Batch processing: process_batch and process_single_batch_document *)

\* most PDFs in the folder
NumDocs == 2

\* most pages of one PDF
MaxPages == 2

\* request.field_definitions: "I D" is replaced by fake data, "SSN" is blacked out
FieldDefinitions ==
    << [name |-> CatIDspace, strategy |-> "Fake Data"],
       [name |-> CatSSN,     strategy |-> "Black Out"] >>

\* candidates the detector may return
CandJD     == [entity_type |-> CatIDspace, original_text |-> TxtJD]
CandJDloud == [entity_type |-> CatIDdash,  original_text |-> TxtJDloud]
CandBlank  == [entity_type |-> CatSSN,     original_text |-> <<" ">>]

\* what claude_service.extract_entities may return for one page
Detections == { <<>>, <<CandJD>>, <<CandBlank, CandJDloud>> }

\* what ocr_service.analyze_document may read on a masked page: nothing, or "J D"
OcrTexts == { <<>>, TxtJD }

\* f"{session_id}_page{n}.png" and f"{session_id}_masked_page{n}.png"; a batch document
\* has its own session_id
PagePath(d, n)   == [doc |-> d, kind |-> "page", n |-> n]
MaskedPath(d, n) == [doc |-> d, kind |-> "masked", n |-> n]

\* set(seq)
Range(seq) == {seq[i] : i \in 1..Len(seq)}

\* round(num / den * 100, 1), in tenths of a percent; ties go to the even tenth
RoundPercent(num, den) ==
    LET q == (1000 * num) \div den
        r == (1000 * num) % den
    IN  IF 2 * r > den THEN q + 1
        ELSE IF 2 * r < den THEN q
        ELSE IF q % 2 = 0 THEN q ELSE q + 1

\* 100.0 and 0.0 in tenths of a percent
Score100 == 1000
Score0 == 0

\* next(f for f in field_definitions if f.name == entity_type), then its strategy
StrategyFor(field_definitions, entity_type) ==
    IF \E i \in 1..Len(field_definitions) : field_definitions[i].name = entity_type
    THEN field_definitions[CHOOSE i \in 1..Len(field_definitions) :
              /\ field_definitions[i].name = entity_type
              /\ \A j \in 1..(i - 1) : field_definitions[j].name # entity_type].strategy
    ELSE "Entity Label"

RECURSIVE AssignReplacements(_, _, _, _, _)
\* the loop "for entity_data in raw_entities": the manager and all_entities after it
AssignReplacements(manager, entities, raw_entities, draws, page_num) ==
    IF raw_entities = <<>> THEN [manager |-> manager, entities |-> entities]
    ELSE LET entity_data == Head(raw_entities)
             strategy    == StrategyFor(FieldDefinitions, entity_data.entity_type)
             r           == get_replacement(manager, entity_data.entity_type,
                                            entity_data.original_text, strategy, Head(draws))
             entity      == [entity_type      |-> entity_data.entity_type,
                             original_text    |-> entity_data.original_text,
                             replacement_text |-> r.ret,
                             page_number      |-> page_num]
         IN  AssignReplacements(r.self, Append(entities, entity),
                                Tail(raw_entities), Tail(draws), page_num)

\* the values Faker may draw while the candidates of one page are mapped
PageDraws(raw_entities) ==
    {draws \in [1..Len(raw_entities) -> FakePool \cup {<<>>}] :
        \A i \in 1..Len(raw_entities) :
            draws[i] \in Draws(StrategyFor(FieldDefinitions, raw_entities[i].entity_type))}

\* masked_count with every entity counted once per masked page
masked_count_over_pages(entities, corpus) ==
    Cardinality({i \in 1..Len(entities) :
        LET original == Lower(Strip(entities[i].original_text))
        IN  original = <<>> \/ ~Contains(corpus, original)}) * Len(masked_image_paths)

\* masked_count without the "not original" test: only absent non-empty texts count
masked_count_nonempty_only(entities, corpus) ==
    Cardinality({i \in 1..Len(entities) :
        LET original == Lower(Strip(entities[i].original_text))
        IN  original # <<>> /\ ~Contains(corpus, original)})

\* masked_count that counts nothing as masked when no page could be read
masked_count_none_without_corpus(entities, corpus) ==
    IF corpus = <<>> THEN 0
    ELSE Cardinality({i \in 1..Len(entities) :
             LET original == Lower(Strip(entities[i].original_text))
             IN  original = <<>> \/ ~Contains(corpus, original)})
\* verify_masking_quality, second loop: the number of entities counted as masked
masked_count(entities, corpus) ==
    Cardinality({i \in 1..Len(entities) :
        LET original == Lower(Strip(entities[i].original_text))
        IN  original = <<>> \/ ~Contains(corpus, original)})

\* the finally block: every listed path that exists is removed
cleanup_temp_images(existing, paths) == existing \ Range(paths)

SuccessResult(d, to_mask, masked, score) ==
    [filename |-> d, status |-> "success", entities_to_mask |-> to_mask,
     entities_masked |-> masked, score |-> score, error |-> "None"]

ErrorResult(d, message) ==
    [filename |-> d, status |-> "error", entities_to_mask |-> 0,
     entities_masked |-> 0, score |-> Score0, error |-> message]

\* process_single_batch_document returns result: the finally block runs on the paths
\* the two lists hold, the locals are dropped, process_batch appends the result
ReturnResult(result, existing, ip, mip) ==
    /\ files' = cleanup_temp_images(existing, ip \o mip)
    /\ results' = Append(results, result)
    /\ image_paths' = <<>>
    /\ masked_image_paths' = <<>>
    /\ all_entities' = <<>>
    /\ full_masked_text' = <<>>
    /\ detected' = <<>>
    /\ page' = 0
    /\ mm' = EmptyDict
    /\ IF doc < bN
       THEN pc' = "convert" /\ doc' = doc + 1
       ELSE pc' = "aggregate" /\ doc' = doc
    /\ UNCHANGED <<bN, response>>
    /\ UNCHANGED <<last, firstRet, issued, manual>>
    /\ UNCHANGED normVars
    /\ UNCHANGED maskVars
    /\ UNCHANGED fnVars

\* Raise without the except clause: the exception leaves process_single_batch_document
\* and process_batch answers 500
RaiseAborts(message, existing, ip, mip) ==
    /\ files' = cleanup_temp_images(existing, ip \o mip)
    /\ pc' = "done"
    /\ response' = [status |-> "500"]
    /\ UNCHANGED <<bN, doc, image_paths, masked_image_paths, all_entities, page,
                   full_masked_text, detected, pdfs, results>>
    /\ UNCHANGED mapVars
    /\ UNCHANGED normVars
    /\ UNCHANGED maskVars
    /\ UNCHANGED fnVars

\* an exception is raised in the try block while ip and mip are the two path lists:
\* except Exception returns the error record
Raise(message, existing, ip, mip) ==
    /\ ReturnResult(ErrorResult(doc, message), existing, ip, mip)
    /\ UNCHANGED pdfs

BatchInit ==
    /\ bN \in 1..NumDocs
    /\ pc = "convert"
    /\ doc = 1
    /\ image_paths = <<>>
    /\ masked_image_paths = <<>>
    /\ all_entities = <<>>
    /\ page = 0
    /\ full_masked_text = <<>>
    /\ detected = <<>>
    /\ files = {}
    /\ pdfs = {}
    /\ results = <<>>
    /\ response = [status |-> "none"]
    /\ mm = EmptyDict
    /\ last = NoCall
    /\ firstRet = [s \in Scopes |-> EmptyDict]
    /\ issued = [s \in Scopes |-> EmptyDict]
    /\ manual = [s \in Scopes |-> EmptyDict]
    /\ NormIdle
    /\ MaskIdle
    /\ FnIdle

\* step 1: pdf_to_images_all fails before a page image is written
ConvertFails ==
    /\ pc = "convert"
    /\ Raise("convert", files, <<>>, <<>>)

\* step 1: pdf_to_images_all writes the images of pages 1..n-1 and fails on page n;
\* image_paths is still the empty list
ConvertFailsPartWay ==
    /\ pc = "convert"
    /\ \E n \in 1..MaxPages :
         Raise("convert", files \cup {PagePath(doc, k) : k \in 1..(n - 1)}, <<>>, <<>>)

\* step 1 and the start of step 2: the page images are written, a MappingManager is
\* created
ConvertPages ==
    /\ pc = "convert"
    /\ \E n \in 1..MaxPages :
         /\ image_paths' = [k \in 1..n |-> PagePath(doc, k)]
         /\ files' = files \cup {PagePath(doc, k) : k \in 1..n}
    /\ masked_image_paths' = <<>>
    /\ mm' = (doc :> NewMappingManager)
    /\ all_entities' = <<>>
    /\ detected' = <<>>
    /\ full_masked_text' = <<>>
    /\ page' = 1
    /\ pc' = "detect"
    /\ UNCHANGED <<bN, doc, pdfs, results, response>>
    /\ UNCHANGED <<last, firstRet, issued, manual>>
    /\ UNCHANGED normVars
    /\ UNCHANGED maskVars
    /\ UNCHANGED fnVars

\* step 2, one page: the OCR call or the detection call raises
DetectFails ==
    /\ pc = "detect"
    /\ \E message \in {"ocr", "detect"} :
         Raise(message, files, image_paths, masked_image_paths)

\* step 2, one page: OCR, detection, and a replacement for every candidate
DetectPage ==
    /\ pc = "detect"
    /\ \E raw_entities \in Detections : \E draws \in PageDraws(raw_entities) :
         LET r == AssignReplacements(mm[doc], all_entities, raw_entities, draws, page)
         IN  /\ mm' = [mm EXCEPT ![doc] = r.manager]
             /\ all_entities' = r.entities
             /\ detected' = detected \o raw_entities
             /\ IF page < Len(image_paths)
                THEN pc' = "detect" /\ page' = page + 1
                ELSE /\ pc' = IF Len(r.entities) = 0 THEN "clean" ELSE "mask"
                     /\ page' = 1
    /\ UNCHANGED <<bN, doc, image_paths, masked_image_paths, full_masked_text,
                   files, pdfs, results, response>>
    /\ UNCHANGED <<last, firstRet, issued, manual>>
    /\ UNCHANGED normVars
    /\ UNCHANGED maskVars
    /\ UNCHANGED fnVars

\* images_to_pdf: the PDF written for document d, recorded by the kind of page images
\* it was composed from (an empty list raises before anything is written)
images_to_pdf(d, paths) == [doc |-> d, composed_from |-> {paths[i].kind : i \in 1..Len(paths)}]

\* step 3: nothing found, images_to_pdf of the untouched pages raises
CleanCopyFails ==
    /\ pc = "clean"
    /\ Raise("compose", files, image_paths, masked_image_paths)

\* CleanCopy with the score left at the default of BatchDocumentResult
CleanCopyDefaultScore ==
    /\ pc = "clean"
    /\ pdfs' = pdfs \cup {images_to_pdf(doc, image_paths)}
    /\ ReturnResult(SuccessResult(doc, 0, 0, Score0), files,
                    image_paths, masked_image_paths)

\* CleanCopy with the copy composed from masked page images
CleanCopyFromMasked ==
    /\ pc = "clean"
    /\ pdfs' = pdfs \cup {images_to_pdf(doc, [k \in 1..Len(image_paths) |->
                                                  MaskedPath(doc, k)])}
    /\ ReturnResult(SuccessResult(doc, 0, 0, Score100), files,
                    image_paths, masked_image_paths)

\* step 3: nothing found, a clean copy is written and the document is done
CleanCopy ==
    /\ pc = "clean"
    /\ pdfs' = pdfs \cup {images_to_pdf(doc, image_paths)}
    /\ ReturnResult(SuccessResult(doc, 0, 0, Score100), files,
                    image_paths, masked_image_paths)

\* step 4, one page: apply_masks raises
MaskFails ==
    /\ pc = "mask"
    /\ Raise("mask", files, image_paths, masked_image_paths)

\* step 4, one page: apply_masks writes the masked page image
MaskPage ==
    /\ pc = "mask"
    /\ files' = files \cup {MaskedPath(doc, page)}
    /\ masked_image_paths' = Append(masked_image_paths, MaskedPath(doc, page))
    /\ IF page < Len(image_paths)
       THEN pc' = "mask" /\ page' = page + 1
       ELSE pc' = "compose" /\ page' = 1
    /\ UNCHANGED <<bN, doc, image_paths, all_entities, full_masked_text, detected,
                   pdfs, results, response>>
    /\ UNCHANGED mapVars
    /\ UNCHANGED normVars
    /\ UNCHANGED maskVars
    /\ UNCHANGED fnVars

\* step 5: images_to_pdf of the masked pages raises
ComposeFails ==
    /\ pc = "compose"
    /\ Raise("compose", files, image_paths, masked_image_paths)

\* step 5: the masked PDF is written beside the original
ComposeMasked ==
    /\ pc = "compose"
    /\ pdfs' = pdfs \cup {images_to_pdf(doc, masked_image_paths)}
    /\ pc' = "verify"
    /\ page' = 1
    /\ UNCHANGED <<bN, doc, image_paths, masked_image_paths, all_entities,
                   full_masked_text, detected, files, results, response>>
    /\ UNCHANGED mapVars
    /\ UNCHANGED normVars
    /\ UNCHANGED maskVars
    /\ UNCHANGED fnVars

\* VerifyPage without the per-page try/except: a failed OCR call fails the document
VerifyPageRaises ==
    /\ pc = "verify"
    /\ \/ Raise("verify", files, image_paths, masked_image_paths)
       \/ /\ \E text \in OcrTexts :
                full_masked_text' = full_masked_text \o <<" ">> \o Lower(text)
          /\ IF page < Len(masked_image_paths)
             THEN pc' = "verify" /\ page' = page + 1
             ELSE pc' = "score" /\ page' = 1
          /\ UNCHANGED <<bN, doc, image_paths, masked_image_paths, all_entities,
                         detected, files, pdfs, results, response>>
          /\ UNCHANGED mapVars
          /\ UNCHANGED normVars
          /\ UNCHANGED maskVars
          /\ UNCHANGED fnVars

\* step 6, verify_masking_quality, one masked page: the OCR call raises and is logged,
\* or its text is appended in lower case
VerifyPage ==
    /\ pc = "verify"
    /\ \/ UNCHANGED full_masked_text
       \/ \E text \in OcrTexts :
            full_masked_text' = full_masked_text \o <<" ">> \o Lower(text)
    /\ IF page < Len(masked_image_paths)
       THEN pc' = "verify" /\ page' = page + 1
       ELSE pc' = "score" /\ page' = 1
    /\ UNCHANGED <<bN, doc, image_paths, masked_image_paths, all_entities, detected,
                   files, pdfs, results, response>>
    /\ UNCHANGED mapVars
    /\ UNCHANGED normVars
    /\ UNCHANGED maskVars
    /\ UNCHANGED fnVars

\* step 6, the rest: the entities are counted, the score computed, the record returned
ScoreDocument ==
    /\ pc = "score"
    /\ LET entities_to_mask == Len(all_entities)
           entities_masked  == masked_count(all_entities, full_masked_text)
           score            == RoundPercent(entities_masked, entities_to_mask)
       IN  ReturnResult(SuccessResult(doc, entities_to_mask, entities_masked, score),
                        files, image_paths, masked_image_paths)
    /\ UNCHANGED pdfs

RECURSIVE SumOver(_, _)
\* sum(f(r) for r in seq), f being a field name
SumOver(seq, field) ==
    IF seq = <<>> THEN 0 ELSE Head(seq)[field] + SumOver(Tail(seq), field)

\* Aggregate with batch_score the mean of the per-document scores
AggregateMeanOfScores ==
    /\ pc = "aggregate"
    /\ response' = [status |-> "returned",
                    total_documents |-> Len(results),
                    successful_documents |->
                        Cardinality({i \in 1..Len(results) : results[i].status = "success"}),
                    batch_score |-> SumOver(results, "score") \div Len(results),
                    results |-> results]
    /\ pc' = "done"
    /\ UNCHANGED <<bN, doc, image_paths, masked_image_paths, all_entities, page,
                   full_masked_text, detected, files, pdfs, results>>
    /\ UNCHANGED mapVars
    /\ UNCHANGED normVars
    /\ UNCHANGED maskVars
    /\ UNCHANGED fnVars

\* process_batch after the loop: the aggregate and the response
Aggregate ==
    /\ pc = "aggregate"
    /\ LET total_to_mask == SumOver(results, "entities_to_mask")
           total_masked  == SumOver(results, "entities_masked")
           batch_score   == IF total_to_mask > 0
                            THEN RoundPercent(total_masked, total_to_mask)
                            ELSE Score100
           successful    == Cardinality({i \in 1..Len(results) :
                                            results[i].status = "success"})
       IN  response' = [status |-> "returned",
                        total_documents |-> Len(results),
                        successful_documents |-> successful,
                        batch_score |-> batch_score,
                        results |-> results]
    /\ pc' = "done"
    /\ UNCHANGED <<bN, doc, image_paths, masked_image_paths, all_entities, page,
                   full_masked_text, detected, files, pdfs, results>>
    /\ UNCHANGED mapVars
    /\ UNCHANGED normVars
    /\ UNCHANGED maskVars
    /\ UNCHANGED fnVars

BatchNext ==
    \/ ConvertFails
    \/ ConvertFailsPartWay
    \/ ConvertPages
    \/ DetectFails
    \/ DetectPage
    \/ CleanCopyFails
    \/ CleanCopy
    \/ MaskFails
    \/ MaskPage
    \/ ComposeFails
    \/ ComposeMasked
    \/ VerifyPage
    \/ ScoreDocument
    \/ Aggregate

SpecBatch == BatchInit /\ [][BatchNext]_vars

-----------------------------------------------------------------------------
(* Claims about batch processing, checked under SpecBatch *)

InDocument == pc \in {"detect", "clean", "mask", "compose", "verify", "score"}

\* C5: every batch document is processed with its own MappingManager, which starts
\* empty and holds nothing but the texts of that document: its keys are the normalized
\* texts detected in the document, every entity carries the value stored under its
\* key, a counter counts only entities of the document, and the first label of an
\* entity type has suffix A whatever the earlier documents mapped.
C5_ScopeIsolation ==
    InDocument =>
        /\ DOMAIN mm = {doc}
        /\ DOMAIN mm[doc].mappings =
               {normalize_text(detected[i].original_text) : i \in 1..Len(detected)}
        /\ \A i \in 1..Len(all_entities) :
               all_entities[i].replacement_text =
                   mm[doc].mappings[normalize_text(all_entities[i].original_text)]
        /\ \A c \in DOMAIN mm[doc].counter :
               /\ mm[doc].counter[c] <=
                      Cardinality({i \in 1..Len(detected) : detected[i].entity_type = c})
               /\ \E i \in 1..Len(all_entities) :
                      all_entities[i].replacement_text = ExpectedLabel(c, 1)

\* the second document of a batch labels its first "I-D" text I_D_A after the first
\* document mapped texts of its own
C5_Witness ==
    /\ InDocument
    /\ doc = 2
    /\ results[1].status = "success"
    /\ results[1].entities_to_mask > 0
    /\ \E i \in 1..Len(all_entities) :
           /\ all_entities[i].entity_type = CatIDdash
           /\ all_entities[i].replacement_text = <<"I","_","D","_","A">>

\* a step in which a document raises an exception
DocumentFails ==
    \/ ConvertFails
    \/ ConvertFailsPartWay
    \/ DetectFails
    \/ CleanCopyFails
    \/ MaskFails
    \/ ComposeFails

\* the entities of a document that verification reports as masked, from what the
\* detector and the re-extraction returned for this document alone
OwnMasked(candidates, corpus) ==
    Cardinality({i \in 1..Len(candidates) :
        \/ Lower(Strip(candidates[i].original_text)) = <<>>
        \/ ~Contains(corpus, Lower(Strip(candidates[i].original_text)))})

\* the record of a document that does not fail, from its own inputs alone
OwnResult(d, candidates, corpus) ==
    [filename |-> d, status |-> "success", error |-> "None",
     entities_to_mask |-> Len(candidates),
     entities_masked |-> IF candidates = <<>> THEN 0 ELSE OwnMasked(candidates, corpus),
     score |-> IF candidates = <<>> THEN Score100
               ELSE RoundPercent(OwnMasked(candidates, corpus), Len(candidates))]

\* C6: whichever documents raise an exception, at whichever step, process_batch returns
\* one record per document in input order; a failing document gets status "error",
\* an error message and entities_to_mask = 0; every other document gets the record its
\* own detections and re-extracted text determine, whatever happened to the others.
C6_FailureIsolation ==
    [][ /\ \/ results' = results
           \/ /\ Len(results') = Len(results) + 1
              /\ SubSeq(results', 1, Len(results)) = results
              /\ LET r == results'[Len(results')]
                 IN  /\ r.filename = doc
                     /\ r.filename = Len(results')
                     /\ IF DocumentFails
                        THEN /\ r.status = "error"
                             /\ r.error # "None"
                             /\ r.entities_to_mask = 0
                        ELSE r = OwnResult(doc, detected, full_masked_text)
        /\ pc' = "done" =>
              /\ response'.status = "returned"
              /\ response'.total_documents = bN
              /\ Len(response'.results) = bN
              /\ response'.results = results
      ]_vars

\* a batch whose first document failed in detection and whose second document was
\* masked and verified has been answered
C6_Witness ==
    /\ pc = "done"
    /\ bN = 2
    /\ response.results[1].status = "error"
    /\ response.results[1].error = "detect"
    /\ response.results[2].status = "success"
    /\ response.results[2].entities_to_mask = 3

\* C7: once process_single_batch_document has returned for a document, no page image
\* and no masked page image of that document exists in the temp image directory.
C7_TempFilesCleaned ==
    \A i \in 1..Len(results) : ~ \E f \in files : f.doc = results[i].filename

Successful == {i \in 1..Len(results) : results[i].status = "success"}

RECURSIVE SumField(_, _, _)
\* the sum of a field over the records with the given indices
SumField(indices, seq, field) ==
    IF indices = {} THEN 0
    ELSE LET i == CHOOSE x \in indices : TRUE
         IN  seq[i][field] + SumField(indices \ {i}, seq, field)

\* C8: successful_documents is the number of records with status "success";
\* batch_score is round(sum(entities_masked) / sum(entities_to_mask) * 100, 1) taken
\* over the successful records alone, 100.0 when that denominator is 0; records with
\* status "error" add 0 to both sums.
C8_BatchAggregation ==
    pc = "done" =>
        LET to_mask == SumField(Successful, results, "entities_to_mask")
            masked  == SumField(Successful, results, "entities_masked")
        IN  /\ response.successful_documents = Cardinality(Successful)
            /\ response.batch_score =
                   IF to_mask = 0 THEN Score100 ELSE RoundPercent(masked, to_mask)
            /\ \A i \in (1..Len(results)) \ Successful :
                   results[i].entities_to_mask = 0 /\ results[i].entities_masked = 0

\* a batch of one failed document and one document with 2 of 3 entities masked has
\* been answered with batch_score 66.7
C8_Witness ==
    /\ pc = "done"
    /\ response.successful_documents = 1
    /\ response.total_documents = 2
    /\ response.batch_score = 667

\* C9: in every record 0 <= entities_masked <= entities_to_mask and the score lies in
\* [0, 100]; batch_score lies in [0, 100].
C9_ScoreBounds ==
    /\ \A i \in 1..Len(results) :
           /\ 0 <= results[i].entities_masked
           /\ results[i].entities_masked <= results[i].entities_to_mask
           /\ Score0 <= results[i].score
           /\ results[i].score <= Score100
    /\ pc = "done" =>
           /\ Score0 <= response.batch_score
           /\ response.batch_score <= Score100

\* a two-page document was verified with 2 of its 3 entities masked and scored 66.7
C9_Witness ==
    \E i \in 1..Len(results) :
        /\ results[i].entities_to_mask = 3
        /\ results[i].entities_masked = 2
        /\ results[i].score = 667

\* C10 as stated: a record has score 100.0 exactly when its entities_to_mask is 0.
C10_PerfectScoreIffNothingToMask ==
    \A i \in 1..Len(results) :
        (results[i].score = Score100) <=> (results[i].entities_to_mask = 0)

\* C10 as amended: a success record with entities_to_mask = 0 has score 100.0; a success
\* record with entities_to_mask > 0 has score round(entities_masked / entities_to_mask
\* * 100, 1), which is 100.0 when every entity was verified masked, so a score of 100.0
\* does not imply entities_to_mask = 0; an error record has entities_to_mask = 0 and
\* score 0.0, so a score of 100.0 implies status "success".
C10_PerfectScore ==
    \A i \in 1..Len(results) :
        /\ (results[i].status = "success" /\ results[i].entities_to_mask = 0)
               => results[i].score = Score100
        /\ (results[i].status = "success" /\ results[i].entities_to_mask > 0)
               => /\ results[i].score = RoundPercent(results[i].entities_masked,
                                                     results[i].entities_to_mask)
                  /\ results[i].entities_masked = results[i].entities_to_mask
                         => results[i].score = Score100
        /\ results[i].status = "error"
               => results[i].entities_to_mask = 0 /\ results[i].score = Score0
        /\ results[i].score = Score100 => results[i].status = "success"

\* a document with nothing to mask and a document with all 3 entities masked both
\* scored 100.0
C10_Witness ==
    /\ Len(results) = 2
    /\ results[1].status = "success"
    /\ results[1].entities_to_mask = 0
    /\ results[1].score = Score100
    /\ results[2].entities_to_mask = 3
    /\ results[2].entities_masked = 3
    /\ results[2].score = Score100

-----------------------------------------------------------------------------
(* Claims about the verifier and the zero-entity branch, checked under SpecBatch *)

\* the original text of a candidate as the verifier compares it
VerifierText(candidate) == Lower(Strip(candidate.original_text))

\* C11 as stated: the count returned by verify_masking_quality is the number of
\* entities whose text is non-empty and does not occur in the re-extracted corpus, so
\* an entity with empty or whitespace-only text is not counted as masked.
C11_CountsNonEmptyAbsent ==
    [][ (pc = "score" /\ Len(results') = Len(results) + 1) =>
            results'[Len(results')].entities_masked =
                Cardinality({i \in 1..Len(detected) :
                    /\ VerifierText(detected[i]) # <<>>
                    /\ ~Contains(full_masked_text, VerifierText(detected[i]))})
      ]_vars

\* C11 as amended: the count returned by verify_masking_quality is the number of
\* entities whose stripped, lower-cased original text is empty or does not occur as a
\* substring of the lower-cased text re-extracted from all masked pages, so an entity
\* with empty or whitespace-only text is always counted as masked.
C11_CountsEmptyOrAbsent ==
    [][ (pc = "score" /\ Len(results') = Len(results) + 1) =>
            results'[Len(results')].entities_masked =
                Cardinality({i \in 1..Len(detected) :
                    \/ VerifierText(detected[i]) = <<>>
                    \/ ~Contains(full_masked_text, VerifierText(detected[i]))})
      ]_vars

\* a document with two whitespace-only entities among its four was verified and all
\* four were counted as masked
C11_Witness ==
    /\ Len(results) = 1
    /\ results[1].entities_to_mask = 4
    /\ results[1].entities_masked = 4

\* s is a prefix of t
IsPrefix(s, t) == Len(s) <= Len(t) /\ SubSeq(t, 1, Len(s)) = s

\* C12: a step of verify_masking_quality on one masked page never ends the document:
\* either the re-extraction failed and the page adds nothing to the corpus, or its
\* lower-cased text is appended; the text of the pages before stays in the corpus, and
\* after the last page a count between 0 and the number of entities is returned in a
\* success record.
C12_VerificationDegrades ==
    [][ /\ pc = "verify" =>
              /\ results' = results
              /\ doc' = doc
              /\ pc' = (IF page < Len(masked_image_paths) THEN "verify" ELSE "score")
              /\ IsPrefix(full_masked_text, full_masked_text')
              /\ \/ full_masked_text' = full_masked_text
                 \/ \E text \in OcrTexts :
                        full_masked_text' = full_masked_text \o <<" ">> \o Lower(text)
        /\ pc = "score" =>
              /\ Len(results') = Len(results) + 1
              /\ results'[Len(results')].status = "success"
              /\ results'[Len(results')].entities_masked \in 0..Len(all_entities)
      ]_vars

\* a two-page document whose re-extraction failed on one page and read "j d" on the
\* other is about to be scored
C12_Witness ==
    /\ pc = "score"
    /\ Len(masked_image_paths) = 2
    /\ full_masked_text = <<" ", "j", " ", "d">>

-----------------------------------------------------------------------------
(* Claims about manual overrides and clearing, checked under Spec *)

\* C14: while a manual mapping of a key is in force (since add_manual_mapping(T, R),
\* until the key is overwritten by another add_manual_mapping or the scope is
\* cleared), the map holds R under normalize_text(T) and every get_replacement of a
\* text with that key returns R for every entity type and strategy, whether or not
\* the key was mapped before; add_manual_mapping changes no other key and no counter.
C14_ManualOverride ==
    [][ \A s \in Scopes :
          /\ \A key \in DOMAIN manual'[s] :
                 /\ key \in DOMAIN mm'[s].mappings
                 /\ mm'[s].mappings[key] = manual'[s][key]
          /\ (last'.op = "get_replacement" /\ last'.scope = s
                 /\ normalize_text(last'.original_text) \in DOMAIN manual[s])
               => /\ last'.ret = manual[s][normalize_text(last'.original_text)]
                  /\ mm'[s] = mm[s]
          /\ (last'.op = "add_manual_mapping" /\ last'.scope = s)
               => LET key == normalize_text(last'.original_text)
                  IN  /\ mm'[s].mappings[key] = last'.ret
                      /\ DOMAIN mm'[s].mappings = DOMAIN mm[s].mappings \cup {key}
                      /\ \A k \in DOMAIN mm[s].mappings \ {key} :
                             mm'[s].mappings[k] = mm[s].mappings[k]
                      /\ mm'[s].counter = mm[s].counter
      ]_vars

\* a Black Out lookup of "j  d." returned the manual value N that overwrote the label
\* generated for the key
C14_Witness ==
    /\ last.op = "get_replacement"
    /\ last.original_text = TxtJDloud
    /\ last.strategy = "Black Out"
    /\ last.ret = <<"N">>
    /\ manual[1] = (<<"j"," ","d">> :> <<"N">>)
    /\ CounterOf(mm[1], CatIDdash) = 1
    /\ DOMAIN mm[1].mappings = {<<"j"," ","d">>}

\* C15: clear_mappings leaves the map and the counters empty, as in a newly constructed
\* MappingManager; the lookup that follows it is a first sighting whatever was mapped
\* before, its Entity Label label has suffix A, and it leaves the object as the same
\* call leaves a new one.
C15_ClearStartsFresh ==
    [][ /\ last'.op = "clear_mappings" =>
              /\ mm'[last'.scope].mappings = EmptyDict
              /\ mm'[last'.scope].counter = EmptyDict
              /\ mm'[last'.scope] = NewMappingManager
        /\ (last.op = "clear_mappings" /\ last'.op = "get_replacement"
               /\ last'.scope = last.scope)
             => /\ ~last'.hit
                /\ last'.labelled =>
                       last'.ret = ExpectedLabel(last'.entity_type, 1)
                /\ mm'[last'.scope].mappings =
                       (normalize_text(last'.original_text) :> last'.ret)
                /\ mm'[last'.scope].counter =
                       IF last'.labelled THEN (last'.entity_type :> 1) ELSE EmptyDict
      ]_vars

\* a scope that held a mapping or a counter has just been cleared (ClearMappings is
\* only called on a scope that is not new) and is empty
C15_Witness ==
    /\ last.op = "clear_mappings"
    /\ last.scope = 1
    /\ mm[1].mappings = EmptyDict
    /\ mm[1].counter = EmptyDict

-----------------------------------------------------------------------------
(* A one-page session: process_document maps the candidates of the page,      *)
(* approve_and_mask paints them with MaskingService.apply_masks.              *)
(* A bounding box [x, y, width, height] of floats is modelled by the record   *)
(* [x, y, w, h, den] of integers that stands for [x/den, y/den, w/den, h/den]. *)

Max(a, b) == IF a >= b THEN a ELSE b
Min(a, b) == IF a <= b THEN a ELSE b

\* int(num / den) for den > 0: truncation toward zero
Trunc(num, den) == IF num >= 0 THEN num \div den ELSE -((-num) \div den)

\* padding = 2
Padding == 2

\* MaskingService._normalize_bbox: <<x, y, width, height>> in pixels
normalize_bbox(bbox, img_width, img_height) ==
    LET x0 == Trunc(bbox.x * img_width, bbox.den)
        y0 == Trunc(bbox.y * img_height, bbox.den)
        w0 == Trunc(bbox.w * img_width, bbox.den)
        h0 == Trunc(bbox.h * img_height, bbox.den)
        x  == Max(0, x0 - Padding)
        y  == Max(0, y0 - Padding)
    IN  <<x, y, Min(img_width - x, w0 + 2 * Padding), Min(img_height - y, h0 + 2 * Padding)>>

\* the comparison of the sort turned around: smallest first
AreaAtLeast_ascending(e1, e2) ==
    LET b1 == e1.bounding_box
        b2 == e2.bounding_box
    IN  b1.w * b1.h * b2.den * b2.den <= b2.w * b2.h * b1.den * b1.den
\* key(e1) >= key(e2) for key = bounding_box[2] * bounding_box[3]
AreaAtLeast(e1, e2) ==
    LET b1 == e1.bounding_box
        b2 == e2.bounding_box
    IN  b1.w * b1.h * b2.den * b2.den >= b2.w * b2.h * b1.den * b1.den

RECURSIVE InsertByArea(_, _)
\* e placed behind every entity whose area is at least its own
InsertByArea(e, sorted) ==
    IF sorted = <<>> THEN <<e>>
    ELSE IF AreaAtLeast(Head(sorted), e)
         THEN <<Head(sorted)>> \o InsertByArea(e, Tail(sorted))
         ELSE <<e>> \o sorted

RECURSIVE SortedByArea(_)
\* sorted(entities, key=area, reverse=True): largest first, equal areas in list order
SortedByArea(entities) ==
    IF entities = <<>> THEN <<>>
    ELSE InsertByArea(entities[Len(entities)],
                      SortedByArea(SubSeq(entities, 1, Len(entities) - 1)))

\* the text condition of apply_masks with the sentinel test left out
draws_text_unless_empty(replacement_text) == replacement_text # <<>>

\* apply_masks: _draw_text is called for this replacement text
draws_text(replacement_text) ==
    replacement_text # REDACTED /\ replacement_text # <<>>

RECURSIVE PaintAll(_, _, _)
\* apply_masks, the loop over sorted_entities: the rectangles drawn and their texts
PaintAll(sorted_entities, img_width, img_height) ==
    IF sorted_entities = <<>> THEN <<>>
    ELSE LET entity == Head(sorted_entities)
             box    == normalize_bbox(entity.bounding_box, img_width, img_height)
             rest   == PaintAll(Tail(sorted_entities), img_width, img_height)
         IN  IF box[3] <= 0 \/ box[4] <= 0 THEN rest
             ELSE << [id   |-> entity.id,
                      rect |-> <<box[1], box[2], box[1] + box[3], box[2] + box[4]>>,
                      text |-> IF draws_text(entity.replacement_text)
                               THEN <<entity.replacement_text>> ELSE <<>>] >> \o rest

\* MaskingService.apply_masks on the entities of one page
apply_masks(entities, img_width, img_height) ==
    PaintAll(SortedByArea(entities), img_width, img_height)

\* most candidates the detector returns for the page
MaxMaskEntities == 2

\* pixel sizes of the page image
ImageSizes == {<<16, 8>>, <<1000, 800>>}

\* [0.1, 0.1, 0.2, 0.05]
BoxExample     == [x |-> 2,  y |-> 2, w |-> 4, h |-> 1, den |-> 20]
\* [0, 0, 0.5, 0.5], in the top left corner
BoxOrigin      == [x |-> 0,  y |-> 0, w |-> 4, h |-> 4, den |-> 8]
\* [0.75, 0.75, 0.25, 0.25], in the bottom right corner
BoxCorner      == [x |-> 6,  y |-> 6, w |-> 2, h |-> 2, den |-> 8]
\* [0.25, 0.25, 0, 0.25], zero width
BoxZeroWidth   == [x |-> 2,  y |-> 2, w |-> 0, h |-> 2, den |-> 8]
\* [0.5, 0.5, 0.25, 0], zero height
BoxZeroHeight  == [x |-> 4,  y |-> 4, w |-> 2, h |-> 0, den |-> 8]
\* [1.5, 0.25, 0.25, 0.25], right of the page
BoxBeyond      == [x |-> 12, y |-> 2, w |-> 2, h |-> 2, den |-> 8]
\* [-0.5, 0.25, 0.25, 0.25], left of the page
BoxOutsideLeft == [x |-> -4, y |-> 2, w |-> 2, h |-> 2, den |-> 8]

Boxes == {BoxExample, BoxOrigin, BoxCorner, BoxZeroWidth, BoxZeroHeight, BoxBeyond,
          BoxOutsideLeft}

\* "j  d." found as an SSN: a Black Out text with the key of CandJD
CandSSNJD == [entity_type |-> CatSSN, original_text |-> TxtJDloud]

\* "B" found as an "I-D", which has no field definition
CandB == [entity_type |-> CatIDdash, original_text |-> TxtB]

MaskCandidates == {CandJD, CandSSNJD, CandB}

\* raw_entities: n candidates with a bounding box each
RawEntities(n) ==
    {[i \in 1..n |-> [entity_type   |-> cands[i].entity_type,
                      original_text |-> cands[i].original_text,
                      bounding_box  |-> boxes[i]]] :
        cands \in [1..n -> MaskCandidates], boxes \in [1..n -> Boxes]}

RECURSIVE ProcessEntities(_, _, _, _, _)
\* process_document, the loop "for entity_data in raw_entities" of one page
ProcessEntities(manager, entities, raw_entities, draws, page_num) ==
    IF raw_entities = <<>> THEN [manager |-> manager, entities |-> entities]
    ELSE LET entity_data == Head(raw_entities)
             strategy    == StrategyFor(FieldDefinitions, entity_data.entity_type)
             r           == get_replacement(manager, entity_data.entity_type,
                                            entity_data.original_text, strategy, Head(draws))
             entity      == [id               |-> <<page_num, Len(entities)>>,
                             entity_type      |-> entity_data.entity_type,
                             original_text    |-> entity_data.original_text,
                             replacement_text |-> r.ret,
                             bounding_box     |-> entity_data.bounding_box,
                             page_number      |-> page_num]
         IN  ProcessEntities(r.self, Append(entities, entity),
                             Tail(raw_entities), Tail(draws), page_num)

MaskInit ==
    /\ MapInit
    /\ NormIdle
    /\ BatchIdle
    /\ FnIdle
    /\ mk_pc = "new"
    /\ img_size \in ImageSizes
    /\ session_entities = <<>>
    /\ painted = <<>>
    /\ sessions = EmptyDict

\* POST /api/process for a one-page session
ProcessDocument ==
    /\ mk_pc = "new"
    /\ \E n \in 0..MaxMaskEntities : \E raw_entities \in RawEntities(n) :
         \E draws \in PageDraws(raw_entities) :
           LET r == ProcessEntities(NewMappingManager, <<>>, raw_entities, draws, 1)
           IN  /\ mm' = [mm EXCEPT ![1] = r.manager]
               /\ session_entities' = r.entities
    /\ mk_pc' = "processed"
    /\ UNCHANGED <<img_size, painted, sessions>>
    /\ UNCHANGED <<last, firstRet, issued, manual>>
    /\ UNCHANGED normVars
    /\ UNCHANGED batchVars
    /\ UNCHANGED fnVars

\* the entities after "Update replacement text if overrides provided": the approved
\* entities named in updates carry the new text, in the session too
WithUpdates(entities, approved_entity_ids, updates) ==
    [i \in 1..Len(entities) |->
        IF entities[i].id \in approved_entity_ids /\ entities[i].id \in DOMAIN updates
        THEN [entities[i] EXCEPT !.replacement_text = updates[entities[i].id]]
        ELSE entities[i]]

\* approve_and_mask masking every stored entity, approved or not
SelectApproved_all(entities, approved_entity_ids) == entities
SelectApproved(entities, approved_entity_ids) ==
    LET Approved(e) == e.id \in approved_entity_ids
    IN  SelectSeq(entities, Approved)

\* the requests a reviewer may send: every entity approved or all but the first, no
\* override or the last entity's replacement text emptied
ApprovalChoices(entities) ==
    LET ids == {entities[i].id : i \in 1..Len(entities)}
    IN  {ids} \cup {ids \ {entities[i].id} : i \in {1} \cap DOMAIN entities}

UpdateChoices(entities) ==
    {EmptyDict} \cup {(entities[i].id :> <<>>) : i \in {Len(entities)} \cap DOMAIN entities}

\* POST /api/approve-and-mask answered 400: nothing to mask
ApproveRejected ==
    /\ mk_pc = "processed"
    /\ \E approved_entity_ids \in ApprovalChoices(session_entities) :
         SelectApproved(session_entities, approved_entity_ids) = <<>>
    /\ mk_pc' = "rejected"
    /\ UNCHANGED <<img_size, session_entities, painted, sessions>>
    /\ UNCHANGED mapVars
    /\ UNCHANGED normVars
    /\ UNCHANGED batchVars
    /\ UNCHANGED fnVars

\* POST /api/approve-and-mask: the approved entities are updated and painted
ApproveAndMask ==
    /\ mk_pc = "processed"
    /\ \E approved_entity_ids \in ApprovalChoices(session_entities) :
         \E updates \in UpdateChoices(session_entities) :
           LET entities_to_mask ==
                   SelectApproved(WithUpdates(session_entities, approved_entity_ids, updates),
                                  approved_entity_ids)
           IN  /\ entities_to_mask # <<>>
               /\ session_entities' =
                      WithUpdates(session_entities, approved_entity_ids, updates)
               /\ painted' = apply_masks(entities_to_mask, img_size[1], img_size[2])
    /\ mk_pc' = "masked"
    /\ UNCHANGED <<img_size, sessions>>
    /\ UNCHANGED mapVars
    /\ UNCHANGED normVars
    /\ UNCHANGED batchVars
    /\ UNCHANGED fnVars

MaskNext == ProcessDocument \/ ApproveRejected \/ ApproveAndMask

SpecMask == MaskInit /\ [][MaskNext]_vars

-----------------------------------------------------------------------------
(* Claims about Black Out and the masker, checked under SpecMask *)

\* the strategy process_document passes for an entity
FieldStrategy(entity) == StrategyFor(FieldDefinitions, entity.entity_type)

\* the entity of the session with this id
EntityById(id) == CHOOSE e \in Range(session_entities) : e.id = id

\* what the masker did for every rectangle it drew: overlay text exactly when the
\* replacement text is neither the sentinel nor empty, and then that text
OverlayRule ==
    \A k \in 1..Len(painted) :
        LET replacement_text == EntityById(painted[k].id).replacement_text
        IN  /\ painted[k].text # <<>> <=> replacement_text \notin {REDACTED, <<>>}
            /\ painted[k].text # <<>> => painted[k].text = <<replacement_text>>

\* C16 as stated: every entity whose field strategy is Black Out gets the replacement
\* text "[REDACTED]", whatever was mapped before it in the scope, and the masker draws
\* overlay text only for a replacement text that is neither the sentinel nor empty.
C16_BlackOutAlwaysSentinel ==
    /\ mk_pc = "processed" =>
           \A i \in 1..Len(session_entities) :
               FieldStrategy(session_entities[i]) = "Black Out" =>
                   session_entities[i].replacement_text = REDACTED
    /\ mk_pc = "masked" => OverlayRule

\* C16 as amended: an entity whose field strategy is Black Out gets the replacement
\* text "[REDACTED]" when its normalized text was not mapped before in the scope, and
\* otherwise the replacement of the first entity with that normalized text; the masker
\* draws overlay text only for a replacement text that is neither the sentinel nor
\* empty, so every box it paints for a "[REDACTED]" entity has no overlay text.
C16_BlackOutSentinelOnFirstSighting ==
    /\ mk_pc = "processed" =>
           \A i \in 1..Len(session_entities) :
               FieldStrategy(session_entities[i]) = "Black Out" =>
                   LET key == normalize_text(session_entities[i].original_text)
                       earlier == {j \in 1..(i - 1) :
                                     normalize_text(session_entities[j].original_text) = key}
                   IN  IF earlier = {}
                       THEN session_entities[i].replacement_text = REDACTED
                       ELSE session_entities[i].replacement_text =
                                session_entities[CHOOSE j \in earlier :
                                    \A k \in earlier : j <= k].replacement_text
    /\ mk_pc = "masked" =>
           /\ OverlayRule
           /\ \A k \in 1..Len(painted) :
                  EntityById(painted[k].id).replacement_text = REDACTED
                      => painted[k].text = <<>>

\* a page was masked on which a Black Out entity with the sentinel got a box without
\* text and an Entity Label entity a box with its label
C16_Witness ==
    /\ mk_pc = "masked"
    /\ Len(painted) = 2
    /\ \E k \in 1..2 :
           /\ FieldStrategy(EntityById(painted[k].id)) = "Black Out"
           /\ EntityById(painted[k].id).replacement_text = REDACTED
           /\ painted[k].text = <<>>
    /\ \E k \in 1..2 :
           /\ FieldStrategy(EntityById(painted[k].id)) = "Entity Label"
           /\ painted[k].text = <<EntityById(painted[k].id).replacement_text>>

\* v clamped to [lo, hi]
Clamp(v, lo, hi) == Max(lo, Min(hi, v))

\* floor(num / den) for den > 0
Floor(num, den) == num \div den

\* the raw pixel rectangle of a box, expanded by 2 pixels on each side and clamped to
\* the image bounds: <<left, top, right, bottom>>
ExpandedClampedRect(bbox, img_width, img_height) ==
    LET left   == Floor(bbox.x * img_width, bbox.den)
        top    == Floor(bbox.y * img_height, bbox.den)
        right  == left + Floor(bbox.w * img_width, bbox.den)
        bottom == top + Floor(bbox.h * img_height, bbox.den)
    IN  << Clamp(left - 2, 0, img_width),  Clamp(top - 2, 0, img_height),
           Clamp(right + 2, 0, img_width), Clamp(bottom + 2, 0, img_height) >>

\* the box lies on the page: 0 <= x, 0 <= y, x + w <= 1, y + h <= 1, w > 0, h > 0
OnPage(bbox) ==
    /\ bbox.x >= 0 /\ bbox.y >= 0
    /\ bbox.w > 0 /\ bbox.h > 0
    /\ bbox.x + bbox.w <= bbox.den
    /\ bbox.y + bbox.h <= bbox.den

\* C17: for every box on the page, the rectangle apply_masks draws from _normalize_bbox
\* is the raw pixel rectangle expanded by exactly 2 pixels on each of its four sides
\* and clamped to the image bounds.
C17_BoxGeometry ==
    mk_pc = "masked" =>
        \A k \in 1..Len(painted) :
            LET bbox == EntityById(painted[k].id).bounding_box
            IN  OnPage(bbox) =>
                    painted[k].rect = ExpandedClampedRect(bbox, img_size[1], img_size[2])

\* zero normalized width or height, or no point of the box inside the page
Degenerate(bbox) ==
    \/ bbox.w = 0
    \/ bbox.h = 0
    \/ bbox.x >= bbox.den
    \/ bbox.y >= bbox.den
    \/ bbox.x + bbox.w <= 0
    \/ bbox.y + bbox.h <= 0

\* C18: apply_masks paints nothing for an entity whose bounding box is degenerate, and
\* does not fail because of it.
C18_DegenerateBoxesSkipped ==
    mk_pc = "masked" =>
        \A k \in 1..Len(painted) :
            ~Degenerate(EntityById(painted[k].id).bounding_box)

-----------------------------------------------------------------------------
(* ClaudeVisionService._parse_claude_response on the list json.loads returned. *)
(* A JSON value is a record of its type and, under a field of its own, its     *)
(* content.                                                                    *)

JNum(n)       == [json |-> "number", num |-> n]
JStr(chars)   == [json |-> "string", chars |-> chars]
JNull         == [json |-> "null"]
JList(values) == [json |-> "array",  items |-> values]
\* fields: a function from field names to JSON values
JObj(fields)  == [json |-> "object", fields |-> fields]

\* the outcome of a Python expression: a value, or an exception
Value(v) == [raised |-> FALSE, v |-> v]
Raised   == [raised |-> TRUE,  v |-> <<>>]

\* "field in entity": key of a dict, element of a list, substring of a str; TypeError
\* for a number or null
HasField(entity, field) ==
    CASE entity.json = "object" -> Value(field \in DOMAIN entity.fields)
      [] entity.json = "array"  -> Value(\E k \in 1..Len(entity.items) :
                                            entity.items[k] = JStr(field))
      [] entity.json = "string" -> Value(FALSE)
      [] OTHER                  -> Raised

RequiredFields == <<"entity_type", "original_text", "bounding_box">>

\* _validate_entity: True, False, or an exception
validate_entity(entity) ==
    LET has == [k \in 1..3 |-> HasField(entity, RequiredFields[k])]
    IN  IF \E k \in 1..3 : has[k].raised /\ \A j \in 1..(k - 1) : has[j].v
        THEN Raised
        ELSE IF \E k \in 1..3 : ~has[k].v THEN Value(FALSE)
        ELSE LET bbox == entity.fields["bounding_box"]
             IN  Value(bbox.json = "array" /\ Len(bbox.items) = 4)

\* float(x): the number itself; ValueError or TypeError for the other values of the model
Float(x) == IF x.json = "number" THEN Value(x.num) ELSE Raised

\* the dict appended to validated_entities for a validated entity, or an exception
validated_entity(entity, page_number) ==
    LET bbox       == entity.fields["bounding_box"]
        confidence == IF "confidence" \in DOMAIN entity.fields
                      THEN Float(entity.fields["confidence"]) ELSE Value(9)
    IN  IF (\E k \in 1..4 : Float(bbox.items[k]).raised) \/ confidence.raised
        THEN Raised
        ELSE Value([entity_type   |-> entity.fields["entity_type"],
                    original_text |-> entity.fields["original_text"],
                    bounding_box  |-> [k \in 1..4 |-> Float(bbox.items[k]).v],
                    confidence    |-> confidence.v,
                    page_number   |-> page_number])

RECURSIVE ValidateAll(_, _, _)
\* the loop "for entity in entities": validated_entities, or an exception
ValidateAll(entities, validated_entities, page_number) ==
    IF entities = <<>> THEN Value(validated_entities)
    ELSE LET entity == Head(entities)
             valid  == validate_entity(entity)
         IN  IF valid.raised THEN Raised
             ELSE IF ~valid.v
                  THEN ValidateAll(Tail(entities), validated_entities, page_number)
                  ELSE LET d == validated_entity(entity, page_number)
                       IN  IF d.raised THEN Raised
                           ELSE ValidateAll(Tail(entities),
                                            Append(validated_entities, d.v), page_number)

\* _parse_claude_response from "Validate and normalize" on: an exception in the loop is
\* caught by "except Exception" and the empty list is returned
parse_claude_response(entities, page_number) ==
    LET r == ValidateAll(entities, <<>>, page_number)
    IN  IF r.raised THEN <<>> ELSE r.v

\* most candidates in one response
MaxCandidates == 2

UnitBox == JList(<<JNum(0), JNum(0), JNum(1), JNum(1)>>)

\* candidates of a response
CGoodA == JObj([entity_type |-> JStr(CatSSN), original_text |-> JStr(TxtJD),
                bounding_box |-> UnitBox])
CGoodB == JObj([entity_type |-> JStr(CatIDdash), original_text |-> JStr(TxtB),
                bounding_box |-> UnitBox, confidence |-> JNum(1)])
CNoType == JObj([original_text |-> JStr(<<"n","t">>), bounding_box |-> UnitBox])
CNoBox == JObj([entity_type |-> JStr(CatSSN), original_text |-> JStr(<<"n","b">>)])
CShortBox == JObj([entity_type |-> JStr(CatSSN), original_text |-> JStr(<<"s","b">>),
                   bounding_box |-> JList(<<JNum(0), JNum(0), JNum(1)>>)])
CBoxString == JObj([entity_type |-> JStr(CatSSN), original_text |-> JStr(<<"b","s">>),
                    bounding_box |-> JStr(<<"0",",","0",",","1",",","1">>)])
CNullCoordinate == JObj([entity_type |-> JStr(CatSSN), original_text |-> JStr(<<"n","c">>),
                         bounding_box |-> JList(<<JNum(0), JNum(0), JNull, JNum(1)>>)])
CWordConfidence == JObj([entity_type |-> JStr(CatSSN), original_text |-> JStr(<<"w","c">>),
                         bounding_box |-> UnitBox,
                         confidence |-> JStr(<<"h","i","g","h">>)])
CNumber == JNum(5)

ResponseCandidates == {CGoodA, CGoodB, CNoType, CNoBox, CShortBox, CBoxString,
                       CNullCoordinate, CWordConfidence, CNumber}

\* fn_out before and after the call
Pending == [returned |-> FALSE, value |-> <<>>]
Returned(value) == [returned |-> TRUE, value |-> value]

ParseInit ==
    /\ MapIdle
    /\ NormIdle
    /\ BatchIdle
    /\ MaskIdle
    /\ fn_in \in UNION {[1..n -> ResponseCandidates] : n \in 0..MaxCandidates}
    /\ fn_out = Pending

\* one call of _parse_claude_response for page 1
ParseResponse ==
    /\ ~fn_out.returned
    /\ fn_out' = Returned(parse_claude_response(fn_in, 1))
    /\ UNCHANGED fn_in
    /\ UNCHANGED mapVars
    /\ UNCHANGED normVars
    /\ UNCHANGED batchVars
    /\ UNCHANGED maskVars

ParseNext == ParseResponse

SpecParse == ParseInit /\ [][ParseNext]_vars

\* the candidate is a JSON object with entity_type, original_text and a bounding_box
\* that is a list of 4
CarriesRequired(c) ==
    /\ c.json = "object"
    /\ {"entity_type", "original_text", "bounding_box"} \subseteq DOMAIN c.fields
    /\ c.fields["bounding_box"].json = "array"
    /\ Len(c.fields["bounding_box"].items) = 4

\* and its coordinates and its confidence, if any, are numbers
WellFormed(c) ==
    /\ CarriesRequired(c)
    /\ \A k \in 1..4 : c.fields["bounding_box"].items[k].json = "number"
    /\ "confidence" \in DOMAIN c.fields => c.fields["confidence"].json = "number"

\* the original texts of a list of candidates or of returned entities
OriginalTexts(seq) == [k \in 1..Len(seq) |-> IF "json" \in DOMAIN seq[k]
                                              THEN seq[k].fields["original_text"]
                                              ELSE seq[k].original_text]

RECURSIVE IsSubsequence(_, _)
\* s can be obtained from t by deleting elements
IsSubsequence(s, t) ==
    IF s = <<>> THEN TRUE
    ELSE IF t = <<>> THEN FALSE
    ELSE IF Head(s) = Head(t) THEN IsSubsequence(Tail(s), Tail(t))
    ELSE IsSubsequence(s, Tail(t))

\* C19: _parse_claude_response returns candidates of the response in their order, only
\* candidates that carry entity_type, original_text and a 4-element bounding_box list,
\* and every well-formed candidate: a malformed candidate never causes a well-formed
\* candidate of the same response to be dropped.
C19_PerCandidateValidation ==
    fn_out.returned =>
        /\ IsSubsequence(OriginalTexts(fn_out.value),
                         OriginalTexts(SelectSeq(fn_in, CarriesRequired)))
        /\ IsSubsequence(OriginalTexts(SelectSeq(fn_in, WellFormed)),
                         OriginalTexts(fn_out.value))

-----------------------------------------------------------------------------
(* MappingManager._generate_same_year_date, reached from _generate_fake_data   *)
(* for a date-like entity type.  A date is a record [year, month, day].        *)

IsDigit(c) == \E k \in 1..10 : DigitChars[k] = c
IsAlpha(c) == IsUpper(c) \/ IsLower(c)
DigitValue(c) == (CHOOSE k \in 1..10 : DigitChars[k] = c) - 1

RECURSIVE ToInt(_)
\* int(s) for a string of digits
ToInt(s) == IF s = <<>> THEN 0
            ELSE 10 * ToInt(SubSeq(s, 1, Len(s) - 1)) + DigitValue(s[Len(s)])

\* the elif chain with the username rule tried first
fake_data_branch_username_first(entity_type) ==
    LET entity_lower == Lower(entity_type)
        has(word)    == Contains(entity_lower, word)
    IN  IF has(<<"u","s","e","r","n","a","m","e">>) \/ has(<<"u","s","e","r">>) THEN "username"
        ELSE IF has(<<"n","a","m","e">>) THEN "name"
        ELSE IF has(<<"e","m","a","i","l">>) \/ has(<<"e","-","m","a","i","l">>) THEN "email"
        ELSE IF has(<<"p","h","o","n","e">>) \/ has(<<"t","e","l","e","p","h","o","n","e">>) \/ has(<<"m","o","b","i","l","e">>) THEN "phone"
        ELSE IF has(<<"a","d","d","r","e","s","s">>) THEN "address"
        ELSE IF has(<<"s","s","n">>) \/ has(<<"s","o","c","i","a","l"," ","s","e","c","u","r","i","t","y">>) THEN "ssn"
        ELSE IF has(<<"d","a","t","e">>) \/ has(<<"d","o","b">>) \/ has(<<"b","i","r","t","h">>) \/ has(<<"b","i","r","t","h","d","a","y">>) THEN "date"
        ELSE IF has(<<"c","o","m","p","a","n","y">>) \/ has(<<"o","r","g","a","n","i","z","a","t","i","o","n">>) \/ has(<<"e","m","p","l","o","y","e","r">>) THEN "company"
        ELSE IF has(<<"j","o","b">>) \/ has(<<"t","i","t","l","e">>) \/ has(<<"p","o","s","i","t","i","o","n">>) THEN "job"
        ELSE IF has(<<"c","r","e","d","i","t">>) \/ has(<<"c","a","r","d">>) THEN "credit card"
        ELSE IF has(<<"a","c","c","o","u","n","t">>) \/ has(<<"b","a","n","k">>) THEN "bank"
        ELSE IF has(<<"l","i","c","e","n","s","e">>) \/ has(<<"l","i","c","e","n","c","e">>) THEN "license"
        ELSE IF has(<<"u","r","l">>) \/ has(<<"w","e","b","s","i","t","e">>) THEN "url"
        ELSE IF has(<<"i","p">>) THEN "ip"
        ELSE "default"

\* the branch of the elif chain of _generate_fake_data that an entity type takes
fake_data_branch(entity_type) ==
    LET entity_lower == Lower(entity_type)
        has(word)    == Contains(entity_lower, word)
    IN  IF has(<<"n","a","m","e">>) THEN "name"
        ELSE IF has(<<"e","m","a","i","l">>) \/ has(<<"e","-","m","a","i","l">>) THEN "email"
        ELSE IF has(<<"p","h","o","n","e">>) \/ has(<<"t","e","l","e","p","h","o","n","e">>) \/ has(<<"m","o","b","i","l","e">>) THEN "phone"
        ELSE IF has(<<"a","d","d","r","e","s","s">>) THEN "address"
        ELSE IF has(<<"s","s","n">>) \/ has(<<"s","o","c","i","a","l"," ","s","e","c","u","r","i","t","y">>) THEN "ssn"
        ELSE IF has(<<"d","a","t","e">>) \/ has(<<"d","o","b">>) \/ has(<<"b","i","r","t","h">>) \/ has(<<"b","i","r","t","h","d","a","y">>) THEN "date"
        ELSE IF has(<<"c","o","m","p","a","n","y">>) \/ has(<<"o","r","g","a","n","i","z","a","t","i","o","n">>) \/ has(<<"e","m","p","l","o","y","e","r">>) THEN "company"
        ELSE IF has(<<"j","o","b">>) \/ has(<<"t","i","t","l","e">>) \/ has(<<"p","o","s","i","t","i","o","n">>) THEN "job"
        ELSE IF has(<<"c","r","e","d","i","t">>) \/ has(<<"c","a","r","d">>) THEN "credit card"
        ELSE IF has(<<"a","c","c","o","u","n","t">>) \/ has(<<"b","a","n","k">>) THEN "bank"
        ELSE IF has(<<"l","i","c","e","n","s","e">>) \/ has(<<"l","i","c","e","n","c","e">>) THEN "license"
        ELSE IF has(<<"u","r","l">>) \/ has(<<"w","e","b","s","i","t","e">>) THEN "url"
        ELSE IF has(<<"i","p">>) THEN "ip"
        ELSE IF has(<<"u","s","e","r","n","a","m","e">>) \/ has(<<"u","s","e","r">>) THEN "username"
        ELSE "default"

\* one item of a regular expression: a character class repeated lo..hi times, hi = -1
\* for no upper limit; the class is "digit", "alpha" or a literal character
Rep(cls, lo, hi) == [cls |-> cls, lo |-> lo, hi |-> hi]
Lit(c) == Rep(c, 1, 1)

InClass(c, cls) == IF cls = "digit" THEN IsDigit(c)
                   ELSE IF cls = "alpha" THEN IsAlpha(c)
                   ELSE c = cls

RECURSIVE fullmatch(_, _)
\* re.fullmatch(pattern, s) is not None
fullmatch(pattern, s) ==
    IF pattern = <<>> THEN s = <<>>
    ELSE LET item == Head(pattern)
             most == IF item.hi = -1 THEN Len(s) ELSE Min(item.hi, Len(s))
         IN  \E n \in item.lo..most :
                /\ \A k \in 1..n : InClass(s[k], item.cls)
                /\ fullmatch(Tail(pattern), SubSeq(s, n + 1, Len(s)))

\* format_patterns: the regular expressions and their strftime formats, in order
format_patterns == <<
    [pattern |-> <<Rep("digit", 4, 4), Lit("-"), Rep("digit", 2, 2), Lit("-"), Rep("digit", 2, 2)>>,
     fmt     |-> <<"%Y", "-", "%m", "-", "%d">>],
    [pattern |-> <<Rep("digit", 2, 2), Lit("/"), Rep("digit", 2, 2), Lit("/"), Rep("digit", 4, 4)>>,
     fmt     |-> <<"%m", "/", "%d", "/", "%Y">>],
    [pattern |-> <<Rep("digit", 2, 2), Lit("-"), Rep("digit", 2, 2), Lit("-"), Rep("digit", 4, 4)>>,
     fmt     |-> <<"%m", "-", "%d", "-", "%Y">>],
    [pattern |-> <<Rep("digit", 4, 4), Lit("/"), Rep("digit", 2, 2), Lit("/"), Rep("digit", 2, 2)>>,
     fmt     |-> <<"%Y", "/", "%m", "/", "%d">>],
    [pattern |-> <<Rep("digit", 1, 2), Lit("/"), Rep("digit", 1, 2), Lit("/"), Rep("digit", 4, 4)>>,
     fmt     |-> <<"%m", "/", "%d", "/", "%Y">>],
    [pattern |-> <<Rep("digit", 1, 2), Lit("-"), Rep("digit", 1, 2), Lit("-"), Rep("digit", 4, 4)>>,
     fmt     |-> <<"%m", "-", "%d", "-", "%Y">>],
    [pattern |-> <<Rep("alpha", 1, -1), Lit(" "), Rep("digit", 1, 2), Rep(",", 0, 1), Lit(" "),
                   Rep("digit", 4, 4)>>,
     fmt     |-> <<"%B", " ", "%d", ",", " ", "%Y">>],
    [pattern |-> <<Rep("digit", 1, 2), Lit(" "), Rep("alpha", 1, -1), Lit(" "), Rep("digit", 4, 4)>>,
     fmt     |-> <<"%d", " ", "%B", " ", "%Y">>],
    [pattern |-> <<Rep("digit", 2, 2), Lit("/"), Rep("digit", 2, 2), Lit("/"), Rep("digit", 2, 2)>>,
     fmt     |-> <<"%m", "/", "%d", "/", "%y">>] >>

DefaultFormat == <<"%m", "/", "%d", "/", "%Y">>

NoFormat == <<>>

\* the loop over format_patterns: the format of the first pattern that matches the
\* stripped string, or None
detected_format(date_str) ==
    LET s    == Strip(date_str)
        hits == {k \in 1..Len(format_patterns) : fullmatch(format_patterns[k].pattern, s)}
    IN  IF hits = {} THEN NoFormat
        ELSE format_patterns[CHOOSE k \in hits : \A j \in hits : k <= j].fmt

MonthNames == <<<<"J","a","n","u","a","r","y">>,
               <<"F","e","b","r","u","a","r","y">>,
               <<"M","a","r","c","h">>,
               <<"A","p","r","i","l">>,
               <<"M","a","y">>,
               <<"J","u","n","e">>,
               <<"J","u","l","y">>,
               <<"A","u","g","u","s","t">>,
               <<"S","e","p","t","e","m","b","e","r">>,
               <<"O","c","t","o","b","e","r">>,
               <<"N","o","v","e","m","b","e","r">>,
               <<"D","e","c","e","m","b","e","r">>>>

IsLeap(year) == (year % 4 = 0 /\ year % 100 # 0) \/ year % 400 = 0

DaysInMonth(year, month) ==
    IF month = 2 THEN (IF IsLeap(year) THEN 29 ELSE 28)
    ELSE IF month \in {4, 6, 9, 11} THEN 30 ELSE 31

\* date(year, month, day)
Date(year, month, day) == [year |-> year, month |-> month, day |-> day]

DatesOfYear(year) == {dt \in {Date(year, m, d) : m \in 1..12, d \in 1..31} :
                         dt.day <= DaysInMonth(year, dt.month)}

Before(a, b) == \/ a.year < b.year
                \/ a.year = b.year /\ a.month < b.month
                \/ a.year = b.year /\ a.month = b.month /\ a.day <= b.day

\* faker.date_between(start_date, end_date): the dates it can return
date_between(start_date, end_date) ==
    {dt \in UNION {DatesOfYear(y) : y \in start_date.year..end_date.year} :
        Before(start_date, dt) /\ Before(dt, end_date)}

\* str of a number, zero-padded to a width
ZeroPad(n, width) == LET digits == Str(n)
                     IN  [k \in 1..(width - Len(digits)) |-> "0"] \o digits

RECURSIVE strftime(_, _)
\* date.strftime(fmt), the format given directive by directive
strftime(dt, fmt) ==
    IF fmt = <<>> THEN <<>>
    ELSE LET piece == CASE Head(fmt) = "%Y" -> ZeroPad(dt.year, 4)
                        [] Head(fmt) = "%y" -> ZeroPad(dt.year % 100, 2)
                        [] Head(fmt) = "%m" -> ZeroPad(dt.month, 2)
                        [] Head(fmt) = "%d" -> ZeroPad(dt.day, 2)
                        [] Head(fmt) = "%B" -> MonthNames[dt.month]
                        [] OTHER            -> <<Head(fmt)>>
         IN  piece \o strftime(dt, Tail(fmt))

NoYear == -1

YearFirst == {
    <<Rep("digit", 4, 4), Lit("-"), Rep("digit", 1, 2), Lit("-"), Rep("digit", 1, 2)>>,
    <<Rep("digit", 4, 4), Lit("/"), Rep("digit", 1, 2), Lit("/"), Rep("digit", 1, 2)>>,
    <<Rep("digit", 4, 4), Lit("."), Rep("digit", 1, 2), Lit("."), Rep("digit", 1, 2)>> }

YearLast == {
    <<Rep("digit", 1, 2), Lit("/"), Rep("digit", 1, 2), Lit("/"), Rep("digit", 4, 4)>>,
    <<Rep("digit", 1, 2), Lit("-"), Rep("digit", 1, 2), Lit("-"), Rep("digit", 4, 4)>>,
    <<Rep("alpha", 1, -1), Lit(" "), Rep("digit", 1, 2), Rep(",", 0, 1), Lit(" "),
      Rep("digit", 4, 4)>>,
    <<Rep("digit", 1, 2), Lit(" "), Rep("alpha", 1, -1), Lit(" "), Rep("digit", 4, 4)>>,
    <<Rep("alpha", 1, -1), Lit(" "), Rep("digit", 4, 4)>> }

\* the year of dateutil_parser.parse(date_str, fuzzy=True) for the strings of the model,
\* NoYear when it raises: numeric dates with a 4-digit year first or last, dates with a
\* month name, and a year after a word that fuzzy parsing skips; a month or a day out
\* of range, and a string without digits, raise
dateutil_parse_year(date_str) ==
    LET s     == Strip(date_str)
        first == SubSeq(s, 1, 4)
        last4 == SubSeq(s, Len(s) - 3, Len(s))
        nums  == \* the 1-2 digit numbers of a numeric date
                 LET seps == {k \in 1..Len(s) : ~IsDigit(s[k])}
                     a    == CHOOSE k \in seps : \A j \in seps : k <= j
                     b    == CHOOSE k \in seps : \A j \in seps : k >= j
                 IN  [a |-> a, b |-> b]
    IN  IF \E p \in YearFirst : fullmatch(p, s)
        THEN LET month == ToInt(SubSeq(s, nums.a + 1, nums.b - 1))
                 day   == ToInt(SubSeq(s, nums.b + 1, Len(s)))
             IN  IF month \in 1..12 /\ day \in 1..DaysInMonth(ToInt(first), month)
                 THEN ToInt(first) ELSE NoYear
        ELSE IF \E p \in YearLast : fullmatch(p, s)
        THEN IF IsDigit(s[1]) /\ IsDigit(s[nums.b - 1])
             THEN LET one == ToInt(SubSeq(s, 1, nums.a - 1))
                      two == ToInt(SubSeq(s, nums.a + 1, nums.b - 1))
                      y   == ToInt(last4)
                  IN  IF \/ one \in 1..12 /\ two \in 1..DaysInMonth(y, one)
                         \/ two \in 1..12 /\ one \in 1..DaysInMonth(y, two)
                      THEN y ELSE NoYear
             ELSE ToInt(last4)
        ELSE NoYear

IsWordChar(c) == IsDigit(c) \/ IsAlpha(c) \/ c = "_"

\* re.search(r'\b(19|20)\d{2}\b', date_str): the year of the first match, or NoYear
regex_year(date_str) ==
    LET at(i) == /\ i + 3 <= Len(date_str)
                 /\ \A k \in i..(i + 3) : IsDigit(date_str[k])
                 /\ SubSeq(date_str, i, i + 1) \in {<<"1","9">>, <<"2","0">>}
                 /\ (i = 1 \/ ~IsWordChar(date_str[i - 1]))
                 /\ (i + 3 = Len(date_str) \/ ~IsWordChar(date_str[i + 4]))
        hits  == {i \in 1..Len(date_str) : at(i)}
    IN  IF hits = {} THEN NoYear
        ELSE LET i == CHOOSE k \in hits : \A j \in hits : k <= j
             IN  ToInt(SubSeq(date_str, i, i + 3))

\* the years faker.date_of_birth() draws from in the model
BirthYears == {1950, 2001}

\* faker.date_of_birth(): the dates it can return
date_of_birth == UNION {DatesOfYear(y) : y \in BirthYears}

\* _generate_same_year_date: the strings it can return
generate_same_year_date_default_format(date_str) ==
    LET parsed == dateutil_parse_year(date_str)
        year   == IF parsed = NoYear THEN regex_year(date_str) ELSE parsed
    IN  IF year # NoYear
        THEN {strftime(fake_date, DefaultFormat) :
                 fake_date \in date_between(Date(year, 1, 1), Date(year, 12, 31))}
        ELSE {strftime(fake_date, DefaultFormat) : fake_date \in date_of_birth}
generate_same_year_date(date_str) ==
    LET fmt    == detected_format(date_str)
        parsed == dateutil_parse_year(date_str)
        year   == IF parsed = NoYear THEN regex_year(date_str) ELSE parsed
    IN  IF year # NoYear
        THEN {strftime(fake_date, IF fmt # NoFormat THEN fmt ELSE DefaultFormat) :
                 fake_date \in date_between(Date(year, 1, 1), Date(year, 12, 31))}
        ELSE {strftime(fake_date, DefaultFormat) : fake_date \in date_of_birth}

\* entity types of the date fields
DateCategories == {<<"D","a","t","e"," ","o","f"," ","B","i","r","t","h">>, <<"D","O","B">>}

\* the original dates of the model
SampleDates == {Date(y, md[1], md[2]) : y \in {1900, 2024, 2099},
                                        md \in {<<1, 1>>, <<3, 5>>, <<12, 31>>}}

\* a date written in one of the forms of the model
Written(form, dt) ==
    CASE form = "iso"     -> ZeroPad(dt.year, 4) \o <<"-">> \o ZeroPad(dt.month, 2) \o <<"-">>
                                \o ZeroPad(dt.day, 2)
      [] form = "us"      -> ZeroPad(dt.month, 2) \o <<"/">> \o ZeroPad(dt.day, 2) \o <<"/">>
                                \o ZeroPad(dt.year, 4)
      [] form = "lenient" -> Str(dt.month) \o <<"/">> \o Str(dt.day) \o <<"/">> \o Str(dt.year)
      [] form = "long"    -> MonthNames[dt.month] \o <<" ">> \o Str(dt.day) \o <<",", " ">>
                                \o Str(dt.year)
      [] form = "long0"   -> MonthNames[dt.month] \o <<" ">> \o ZeroPad(dt.day, 2)
                                \o <<",", " ">> \o Str(dt.year)
      [] form = "dotted"  -> Str(dt.year) \o <<".">> \o ZeroPad(dt.month, 2) \o <<".">>
                                \o ZeroPad(dt.day, 2)
      [] form = "spaced"  -> <<" ">> \o Str(dt.year) \o <<"-">> \o ZeroPad(dt.month, 2)
                                \o <<"-">> \o ZeroPad(dt.day, 2) \o <<" ">>

InputForms == {"iso", "us", "lenient", "long", "dotted", "spaced"}

\* a date with a month and a day out of range, and a string without a date
TxtNoSuchDay == <<"1","3","/","4","5","/","1","9","8","5">>
TxtUnknown   == <<"u","n","k","n","o","w","n">>

DateTexts == {Written(form, dt) : form \in InputForms, dt \in SampleDates}
                 \cup {TxtNoSuchDay, TxtUnknown}

DateInit ==
    /\ MapIdle
    /\ NormIdle
    /\ BatchIdle
    /\ MaskIdle
    /\ fn_in \in [entity_type : DateCategories, original_text : DateTexts]
    /\ fn_out = Pending

\* _generate_fake_data(entity_type, original_text) taking the date branch
GenerateDate ==
    /\ ~fn_out.returned
    /\ fake_data_branch(fn_in.entity_type) = "date"
    /\ \E replacement \in generate_same_year_date(fn_in.original_text) :
          fn_out' = Returned(replacement)
    /\ UNCHANGED fn_in
    /\ UNCHANGED mapVars
    /\ UNCHANGED normVars
    /\ UNCHANGED batchVars
    /\ UNCHANGED maskVars

DateNext == GenerateDate

SpecDate == DateInit /\ [][DateNext]_vars

\* the form a replacement is displayed in, for an original in a form of the model:
\* the form of the original, with zero-padded day and month, or MM/DD/YYYY for a form
\* that is no format pattern
DisplayForm(form) ==
    CASE form \in {"iso", "spaced"}   -> "iso"
      [] form \in {"us", "lenient"}   -> "us"
      [] form = "long"                -> "long0"
      [] form = "dotted"              -> "us"

\* the calendar days from Jan 1 to Dec 31 of a year
CalendarDays(Y) ==
    {dt \in [year : {Y}, month : 1..12, day : 1..31] :
        /\ dt.month \in {4, 6, 9, 11} => dt.day <= 30
        /\ dt.month = 2 => dt.day <= 29
        /\ dt.month = 2 /\ ~(Y % 4 = 0 /\ (Y % 100 # 0 \/ Y % 400 = 0)) => dt.day <= 28}

\* C20: for an original date of year Y in 1900..2099 written as YYYY-MM-DD, MM/DD/YYYY or
\* "Month D, YYYY" (or in a variant of them), the replacement generated for a date-like
\* entity type is a date within [Jan 1 Y, Dec 31 Y] in the detected display format, and in
\* MM/DD/YYYY when no format pattern matched the original.
C20_YearPreserved ==
    fn_out.returned =>
        \A form \in InputForms, dt \in SampleDates :
            fn_in.original_text = Written(form, dt) =>
                \E fake \in CalendarDays(dt.year) :
                    fn_out.value = Written(DisplayForm(form), fake)

\* a leap-year original in ISO form replaced by Feb 29 of its year, and a dotted
\* original replaced in MM/DD/YYYY
C20_Witness ==
    /\ fn_out.returned
    /\ \/ /\ fn_in.original_text = Written("iso", Date(2024, 12, 31))
          /\ fn_out.value = <<"2","0","2","4","-","0","2","-","2","9">>
       \/ /\ fn_in.original_text = Written("dotted", Date(1900, 1, 1))
          /\ fn_out.value = <<"1","2","/","3","1","/","1","9","0","0">>

-----------------------------------------------------------------------------
(* Claims about the paint order and the session protocol, checked under SpecMask *)

\* the normalized area of box b1 is larger than that of box b2
LargerArea(b1, b2) == b1.w * b1.h * b2.den * b2.den > b2.w * b2.h * b1.den * b1.den

\* the entity with this id in a list of entities
EntityIn(entities, id) == CHOOSE e \in Range(entities) : e.id = id

\* two painted rectangles <<x1, y1, x2, y2>> share a pixel
Overlap(r1, r2) == r1[1] <= r2[3] /\ r2[1] <= r1[3] /\ r1[2] <= r2[4] /\ r2[2] <= r1[4]

\* the ids of a list of entities, in order
Ids(entities) == [i \in 1..Len(entities) |-> entities[i].id]

\* C21: apply_masks paints the entities of a page in non-increasing order of normalized
\* area, entities of equal area in their input order, so of two overlapping boxes the
\* smaller one is painted after the larger one; the caller's list keeps its entities
\* and their order.
C21_PaintOrder ==
    [][ mk_pc' = "masked" =>
          /\ \A k, l \in 1..Len(painted') :
                LET a == EntityIn(session_entities', painted'[k].id)
                    b == EntityIn(session_entities', painted'[l].id)
                IN  /\ k < l => ~LargerArea(b.bounding_box, a.bounding_box)
                    /\ k < l /\ ~LargerArea(a.bounding_box, b.bounding_box)
                           => a.id[2] < b.id[2]
                    /\ Overlap(painted'[k].rect, painted'[l].rect)
                         /\ LargerArea(a.bounding_box, b.bounding_box) => k < l
          /\ Ids(session_entities') = Ids(session_entities)
          /\ \A i \in 1..Len(session_entities) :
                session_entities'[i].bounding_box = session_entities[i].bounding_box
      ]_vars

\* the second entity of the page is the larger one and is painted first, under the
\* first, which overlaps it
C21_Witness ==
    /\ mk_pc = "masked"
    /\ Len(painted) = 2
    /\ painted[1].id = <<1, 1>>
    /\ painted[2].id = <<1, 0>>
    /\ Overlap(painted[1].rect, painted[2].rect)
    /\ session_entities[1].id = <<1, 0>>

-----------------------------------------------------------------------------
(* MappingManager._generate_fake_data: the rule chosen for an entity type.     *)

\* the words entity types are made of
CategoryWords == {<<"N","a","m","e">>, <<"U","s","e","r">>, <<"U","s","e","r","n","a","m","e">>, <<"C","o","m","p","a","n","y">>, <<"E","-","M","a","i","l">>, <<"B","i","r","t","h">>, <<"Z","i","p">>,
                  <<"C","a","r","d">>, <<"T","i","t","l","e">>, <<"A","c","c","o","u","n","t">>, <<"I","D">>, <<"A","d","d","r","e","s","s">>}

\* entity types of one word or of two words
RuleCategories == CategoryWords \cup {a \o <<" ">> \o b : a, b \in CategoryWords}

RuleInit ==
    /\ MapIdle
    /\ NormIdle
    /\ BatchIdle
    /\ MaskIdle
    /\ fn_in \in [entity_type : RuleCategories, original_text : {TxtJD}]
    /\ fn_out = Pending

\* _generate_fake_data(entity_type, original_text): the generator rule it returns from
GenerateFakeData ==
    /\ ~fn_out.returned
    /\ fn_out' = Returned(<<fake_data_branch(fn_in.entity_type)>>)
    /\ UNCHANGED fn_in
    /\ UNCHANGED mapVars
    /\ UNCHANGED normVars
    /\ UNCHANGED batchVars
    /\ UNCHANGED maskVars

RuleNext == GenerateFakeData

SpecRule == RuleInit /\ [][RuleNext]_vars

\* the rules in their order, each with its keywords
RuleChain == <<
    [rule |-> "name", keywords |-> {<<"n","a","m","e">>}],
    [rule |-> "email", keywords |-> {<<"e","m","a","i","l">>, <<"e","-","m","a","i","l">>}],
    [rule |-> "phone", keywords |-> {<<"p","h","o","n","e">>, <<"t","e","l","e","p","h","o","n","e">>, <<"m","o","b","i","l","e">>}],
    [rule |-> "address", keywords |-> {<<"a","d","d","r","e","s","s">>}],
    [rule |-> "ssn", keywords |-> {<<"s","s","n">>, <<"s","o","c","i","a","l"," ","s","e","c","u","r","i","t","y">>}],
    [rule |-> "date", keywords |-> {<<"d","a","t","e">>, <<"d","o","b">>, <<"b","i","r","t","h">>, <<"b","i","r","t","h","d","a","y">>}],
    [rule |-> "company", keywords |-> {<<"c","o","m","p","a","n","y">>, <<"o","r","g","a","n","i","z","a","t","i","o","n">>, <<"e","m","p","l","o","y","e","r">>}],
    [rule |-> "job", keywords |-> {<<"j","o","b">>, <<"t","i","t","l","e">>, <<"p","o","s","i","t","i","o","n">>}],
    [rule |-> "credit card", keywords |-> {<<"c","r","e","d","i","t">>, <<"c","a","r","d">>}],
    [rule |-> "bank", keywords |-> {<<"a","c","c","o","u","n","t">>, <<"b","a","n","k">>}],
    [rule |-> "license", keywords |-> {<<"l","i","c","e","n","s","e">>, <<"l","i","c","e","n","c","e">>}],
    [rule |-> "url", keywords |-> {<<"u","r","l">>, <<"w","e","b","s","i","t","e">>}],
    [rule |-> "ip", keywords |-> {<<"i","p">>}],
    [rule |-> "username", keywords |-> {<<"u","s","e","r","n","a","m","e">>, <<"u","s","e","r">>}] >>

\* s with its letters in lower case
Lowercased(s) == [i \in 1..Len(s) |->
                     IF \E k \in 1..26 : UpperChars[k] = s[i]
                     THEN LowerChars[CHOOSE k \in 1..26 : UpperChars[k] = s[i]] ELSE s[i]]

\* word occurs in s
Substring(word, s) == \E i \in 0..(Len(s) - Len(word)) : SubSeq(s, i + 1, i + Len(word)) = word

\* rule k has a keyword in the lowercased category
RuleMatches(k, category) ==
    \E word \in RuleChain[k].keywords : Substring(word, Lowercased(category))

\* C22: the generator used is that of the first rule, in the order name, email, phone,
\* address, SSN, date, company, job, credit card, bank, license, url, ip, username, with a
\* keyword in the lowercased category, and the default rule when no rule has one; a
\* category containing "name" is handled by the name rule.
C22_FirstMatchWins ==
    fn_out.returned =>
        LET category == fn_in.entity_type
            matching == {k \in 1..Len(RuleChain) : RuleMatches(k, category)}
        IN  /\ matching = {} => fn_out.value = <<"default">>
            /\ matching # {} =>
                  fn_out.value = <<RuleChain[CHOOSE k \in matching : \A j \in matching : k <= j].rule>>
            /\ Substring(<<"n","a","m","e">>, Lowercased(category)) => fn_out.value = <<"name">>

\* "Username" or "Company Name" was handled by the name rule
C22_Witness ==
    /\ fn_out.returned
    /\ \/ fn_in.entity_type = <<"U","s","e","r","n","a","m","e">> /\ fn_out.value = <<"name">>
       \/ fn_in.entity_type = <<"C","o","m","p","a","n","y"," ","N","a","m","e">> /\ fn_out.value = <<"name">>

-----------------------------------------------------------------------------
(* Two tasks of the event loop that call get_replacement on one MappingManager. *)
(* fn_in holds the arguments of each task's call, fn_out the task that holds    *)
(* the loop (0 for none) and each task's position and returned value.           *)

Tasks == {1, 2}

\* get_replacement past the cache check: a replacement is generated and stored under the
\* normalized text, whatever is stored there
create_replacement(self, entity_type, original_text, strategy, draw) ==
    LET normalized == normalize_text(original_text)
        r == get_replacement([self EXCEPT !.mappings = DictDel(self.mappings, normalized)],
                             entity_type, original_text, strategy, draw)
    IN  [self |-> [r.self EXCEPT !.mappings = DictPut(self.mappings, normalized, r.ret)],
         ret  |-> r.ret]

\* a task releases the event loop at every position
yields_everywhere(task_pc) == TRUE

\* a task releases the event loop at this position: get_replacement has no await, so not
\* between its cache check and its insert
yields(task_pc) == task_pc # "create"

TaskRequests ==
    {r \in [entity_type : Categories, original_text : Texts,
            strategy : {"Fake Data", "Entity Label"}, draw : FakePool \cup {<<>>}] :
        r.draw \in Draws(r.strategy)}

TaskInit ==
    /\ MapInit
    /\ NormIdle
    /\ BatchIdle
    /\ MaskIdle
    /\ fn_in \in [Tasks -> TaskRequests]
    /\ fn_out = [running |-> 0, task |-> [t \in Tasks |-> [pc |-> "awaiting", ret |-> <<>>]]]

\* the task is resumed and runs get_replacement up to the cache check
CacheCheck(t) ==
    LET self       == mm[1]
        normalized == normalize_text(fn_in[t].original_text)
        hit        == normalized \in DOMAIN self.mappings
        now        == IF hit THEN [pc |-> "returned", ret |-> self.mappings[normalized]]
                      ELSE [pc |-> "create", ret |-> <<>>]
    IN  /\ fn_out.running \in {0, t}
        /\ fn_out.task[t].pc = "awaiting"
        /\ fn_out' = [running |-> IF yields(now.pc) THEN 0 ELSE t,
                      task    |-> [fn_out.task EXCEPT ![t] = now]]
        /\ UNCHANGED fn_in
        /\ UNCHANGED mapVars
        /\ UNCHANGED normVars
        /\ UNCHANGED batchVars
        /\ UNCHANGED maskVars

\* the task runs get_replacement from the cache miss to its return
CreateReplacement(t) ==
    LET r == create_replacement(mm[1], fn_in[t].entity_type, fn_in[t].original_text,
                                fn_in[t].strategy, fn_in[t].draw)
    IN  /\ fn_out.running \in {0, t}
        /\ fn_out.task[t].pc = "create"
        /\ mm' = [mm EXCEPT ![1] = r.self]
        /\ fn_out' = [running |-> 0,
                      task    |-> [fn_out.task EXCEPT ![t] = [pc |-> "returned", ret |-> r.ret]]]
        /\ UNCHANGED fn_in
        /\ UNCHANGED <<last, firstRet, issued, manual>>
        /\ UNCHANGED normVars
        /\ UNCHANGED batchVars
        /\ UNCHANGED maskVars

TaskNext == \E t \in Tasks : CacheCheck(t) \/ CreateReplacement(t)

SpecTasks == TaskInit /\ [][TaskNext]_vars

\* both tasks ask for texts with one normalized key
SameKey == normalize_text(fn_in[1].original_text) = normalize_text(fn_in[2].original_text)

\* C23: when two concurrent get_replacement calls on one scope ask for texts with the
\* same, not yet mapped, normalized key, both return the same replacement and the map ends
\* with a single entry, for that key; no other task takes a step between a task's cache
\* check and its insert.
C23_LookupOrCreateSerialized ==
    /\ [](SameKey /\ (\A t \in Tasks : fn_out.task[t].pc = "returned") =>
             /\ fn_out.task[1].ret = fn_out.task[2].ret
             /\ DOMAIN mm[1].mappings = {normalize_text(fn_in[1].original_text)}
             /\ mm[1].mappings[normalize_text(fn_in[1].original_text)] = fn_out.task[1].ret)
    /\ [][\A t, u \in Tasks :
             t # u /\ fn_out.task[t].pc = "create" => fn_out'.task[u] = fn_out.task[u]]_vars

\* two Fake Data calls with different draws for "J D" and "j  d." have both returned
C23_Witness ==
    /\ \A t \in Tasks : fn_out.task[t].pc = "returned" /\ fn_in[t].strategy = "Fake Data"
    /\ fn_in[1].original_text = TxtJD
    /\ fn_in[2].original_text = TxtJDloud
    /\ fn_in[1].draw # fn_in[2].draw
    /\ fn_out.task[1].ret = fn_out.task[2].ret

-----------------------------------------------------------------------------
(* Validation of the field definitions of a request: ProcessRequest for        *)
(* POST /api/process, BatchRequest for POST /api/batch/process.                *)

\* most field definitions in one request
MaxFieldDefs == 2

\* FieldDefinition.name_not_empty: the stripped name, or ValueError
name_not_empty(v) == IF v = <<>> \/ Strip(v) = <<>> THEN Raised ELSE Value(Strip(v))

\* the FieldDefinition objects built from the items of the request, or a validation error
field_definition_models(items) ==
    IF \E i \in 1..Len(items) : name_not_empty(items[i].name).raised THEN Raised
    ELSE Value([i \in 1..Len(items) |->
                   [name |-> name_not_empty(items[i].name).v, strategy |-> items[i].strategy]])

\* ProcessRequest: min_length=1 and validate_fields
process_request_fields(items) ==
    LET models == field_definition_models(items)
    IN  IF models.raised \/ Len(items) < 1 THEN Raised
        ELSE LET v     == models.v
                 names == [i \in 1..Len(v) |-> v[i].name]
             IN  IF v = <<>> THEN Raised
                 ELSE IF Len(names) # Cardinality(Range(names)) THEN Raised
                 ELSE Value(v)

\* BatchRequest: min_length=1
batch_request_fields(items) ==
    LET models == field_definition_models(items)
    IN  IF models.raised \/ Len(items) < 1 THEN Raised ELSE models

\* names as a client may send them
RequestNames == {CatIDspace, <<" ">> \o CatIDspace, CatSSN, <<" ">>}

RequestItems == [name : RequestNames, strategy : {"Fake Data", "Black Out"}]

RequestInit ==
    /\ MapIdle
    /\ NormIdle
    /\ BatchIdle
    /\ MaskIdle
    /\ fn_in \in [mode : {"process", "batch"},
                  field_definitions : UNION {[1..n -> RequestItems] : n \in 0..MaxFieldDefs}]
    /\ fn_out = Pending

\* the answer to a request: 422 and no document processed, or the documents processed
\* with the strategy found for an entity of type "I D"
Answer(fields) ==
    IF fields.raised THEN Returned(<<[status |-> 422, processed |-> FALSE, strategy |-> ""]>>)
    ELSE Returned(<<[status |-> 200, processed |-> TRUE,
                    strategy |-> StrategyFor(fields.v, CatIDspace)]>>)

\* POST /api/process
PostProcess ==
    /\ ~fn_out.returned
    /\ fn_in.mode = "process"
    /\ fn_out' = Answer(process_request_fields(fn_in.field_definitions))
    /\ UNCHANGED fn_in
    /\ UNCHANGED mapVars
    /\ UNCHANGED normVars
    /\ UNCHANGED batchVars
    /\ UNCHANGED maskVars

\* POST /api/batch/process
PostBatch ==
    /\ ~fn_out.returned
    /\ fn_in.mode = "batch"
    /\ fn_out' = Answer(batch_request_fields(fn_in.field_definitions))
    /\ UNCHANGED fn_in
    /\ UNCHANGED mapVars
    /\ UNCHANGED normVars
    /\ UNCHANGED batchVars
    /\ UNCHANGED maskVars

RequestNext == PostProcess \/ PostBatch

SpecRequest == RequestInit /\ [][RequestNext]_vars

\* two field definitions of the request have the same name after trimming
DuplicateNames(items) ==
    \E i, j \in 1..Len(items) : i # j /\ Strip(items[i].name) = Strip(items[j].name)

\* C24: a request whose field definitions contain two entries with the same name after
\* trimming is rejected before any document is processed, in single-document mode and
\* in batch mode alike.
C24_DuplicateFieldsRejected ==
    fn_out.returned /\ DuplicateNames(fn_in.field_definitions) =>
        /\ fn_out.value[1].status = 422
        /\ ~fn_out.value[1].processed

-----------------------------------------------------------------------------
(* Total verification failure, checked under SpecBatch *)

\* C27: when the re-extraction call failed on every masked page of a document, the
\* corpus is empty, every entity is counted as masked, and the document is recorded
\* with status "success", entities_masked = entities_to_mask and score 100.0.
C27_TotalVerificationFailure ==
    [][ pc = "score" /\ full_masked_text = <<>> =>
          /\ Len(results') = Len(results) + 1
          /\ results'[Len(results')] =
                 SuccessResult(doc, Len(all_entities), Len(all_entities), Score100)
          /\ Len(all_entities) > 0
      ]_vars

\* a two-page document with entities is about to be scored after the re-extraction
\* failed on both masked pages
C27_Witness ==
    /\ pc = "score"
    /\ full_masked_text = <<>>
    /\ Len(masked_image_paths) = 2
    /\ Len(all_entities) >= 2

-----------------------------------------------------------------------------
(* Two fresh MappingManager objects that receive the same requests, one with    *)
(* the texts of a first document, the other with the texts of a second.         *)
(* fn_in holds the requests made so far, fn_out the pairs of values returned.   *)

\* most requests made to the pair
MaxPairCalls == 3

\* the texts of the second document
OtherTexts == {<<"X">>, <<"Y">>}

\* both sides use one MappingManager
scope_of_shared(side) == 1

\* the MappingManager a side calls: each __init__ makes its own mappings and counter
scope_of(side) == side

PairInit ==
    /\ mm = [s \in {1, 2} |-> NewMappingManager]
    /\ last = NoCall
    /\ firstRet = [s \in Scopes |-> EmptyDict]
    /\ issued = [s \in Scopes |-> EmptyDict]
    /\ manual = [s \in Scopes |-> EmptyDict]
    /\ NormIdle
    /\ BatchIdle
    /\ MaskIdle
    /\ FnIdle

\* the texts of the two sides of the requests have the same pattern of equal and unequal
\* normalized keys
SamePatternIn(requests) ==
    \A i, j \in 1..Len(requests) :
        (requests[i].keys[1] = requests[j].keys[1]) <=> (requests[i].keys[2] = requests[j].keys[2])

\* the same get_replacement request on both sides, each with a text of its document; the
\* second document repeats a text exactly where the first one does
PairRequest ==
    /\ Len(fn_in) < MaxPairCalls
    /\ \E entity_type \in Categories, strategy \in {"Entity Label", "Black Out"},
          t1 \in Texts, t2 \in OtherTexts :
         LET r1  == get_replacement(mm[scope_of(1)], entity_type, t1, strategy, <<>>)
             mid == [mm EXCEPT ![scope_of(1)] = r1.self]
             r2  == get_replacement(mid[scope_of(2)], entity_type, t2, strategy, <<>>)
         IN  /\ mm' = [mid EXCEPT ![scope_of(2)] = r2.self]
             /\ fn_in' = Append(fn_in, [entity_type |-> entity_type, strategy |-> strategy,
                                        texts |-> <<t1, t2>>,
                                        keys  |-> <<normalize_text(t1), normalize_text(t2)>>])
             /\ SamePatternIn(fn_in')
             /\ fn_out' = Append(fn_out, <<r1.ret, r2.ret>>)
    /\ UNCHANGED <<last, firstRet, issued, manual>>
    /\ UNCHANGED normVars
    /\ UNCHANGED batchVars
    /\ UNCHANGED maskVars

PairNext == PairRequest

SpecPair == PairInit /\ [][PairNext]_vars

\* the texts of the two sides have the same pattern of equal and unequal normalized keys
SamePattern == SamePatternIn(fn_in)

\* C28: two fresh scopes that receive the same sequence of (entity type, strategy)
\* requests under Entity Label or Black Out, with original texts that have the same
\* pattern of equal and unequal normalized keys, return the same sequence of replacements.
C28_SameRequestsSameReplacements ==
    SamePattern => \A i \in 1..Len(fn_out) : fn_out[i][1] = fn_out[i][2]

\* both sides were given the labels I_D_A and I_D_B and then, for a text seen before
\* in another spelling, the first label again
C28_Witness ==
    /\ Len(fn_out) = 3
    /\ SamePattern
    /\ fn_in[1].texts[1] = TxtJD
    /\ fn_in[3].texts[1] = TxtJDloud
    /\ fn_out[1] = <<<<"I","_","D","_","A">>, <<"I","_","D","_","A">>>>
    /\ fn_out[2] = <<<<"I","_","D","_","B">>, <<"I","_","D","_","B">>>>
    /\ fn_out[3] = fn_out[1]

-----------------------------------------------------------------------------
(* One upload session of the single-document mode, driven by a client that      *)
(* waits for each answer: upload, process_document page by page, approve_and_mask *)
(* and delete_session.  sessions is the session store; files and pdfs are the    *)
(* page images and masked PDFs on disk; pc, page, all_entities and mm[1] are the  *)
(* locals of process_document; response is the last answer, with the operation   *)
(* and the ids it was asked to approve; fn_out.stored is the number of entities   *)
(* the last successful process_document stored in the session, -1 for none.      *)

\* the id of the session
Sid == 1

\* what the detector may return for a page of the session
RawOrigin  == [entity_type |-> CatSSN,    original_text |-> TxtJD, bounding_box |-> BoxOrigin]
RawExample == [entity_type |-> CatIDdash, original_text |-> TxtB,  bounding_box |-> BoxExample]
SessionDetections == { <<>>, <<RawOrigin, RawExample>> }

Answered(op, code, approved_entity_ids) ==
    [op |-> op, status |-> code, approved |-> approved_entity_ids]

SessionInit ==
    /\ MapInit
    /\ NormIdle
    /\ bN = 0
    /\ pc = "idle"
    /\ doc = 0
    /\ image_paths = <<>>
    /\ masked_image_paths = <<>>
    /\ all_entities = <<>>
    /\ page = 0
    /\ full_masked_text = <<>>
    /\ detected = <<>>
    /\ files = {}
    /\ pdfs = {}
    /\ results = <<>>
    /\ response = Answered("none", 0, {})
    /\ mk_pc = "idle"
    /\ img_size = <<1000, 800>>
    /\ session_entities = <<>>
    /\ painted = <<>>
    /\ sessions = EmptyDict
    /\ fn_in = <<>>
    /\ fn_out = [stored |-> -1, dropped |-> 0]

\* what no action of the session changes
SessionFrame ==
    /\ UNCHANGED <<bN, doc, image_paths, masked_image_paths, full_masked_text, detected, results>>
    /\ UNCHANGED <<mk_pc, img_size, session_entities>>
    /\ UNCHANGED <<last, firstRet, issued, manual>>
    /\ UNCHANGED normVars
    /\ UNCHANGED fn_in

\* POST /api/upload: the pages are written and the session is created
Upload ==
    /\ pc = "idle"
    /\ Sid \notin DOMAIN sessions
    /\ \E n \in 1..MaxPages :
         LET paths == [i \in 1..n |-> PagePath(Sid, i)]
         IN  /\ files' = files \cup Range(paths)
             /\ sessions' = (Sid :> [image_paths |-> paths])
    /\ response' = Answered("upload", 200, {})
    /\ fn_out' = [stored |-> -1, dropped |-> 0]
    /\ UNCHANGED <<pc, page, all_entities, mm, pdfs, painted>>
    /\ SessionFrame

\* POST /api/process for a session that does not exist: get_session raises 404
ProcessUnknown ==
    /\ pc = "idle"
    /\ Sid \notin DOMAIN sessions
    /\ response' = Answered("process_document", 404, {})
    /\ UNCHANGED <<pc, page, all_entities, mm, files, pdfs, painted, sessions, fn_out>>
    /\ SessionFrame

\* POST /api/process up to the first await: a MappingManager and an empty list
BeginProcess ==
    /\ pc = "idle"
    /\ Sid \in DOMAIN sessions
    /\ pc' = "page"
    /\ page' = 1
    /\ all_entities' = <<>>
    /\ mm' = [mm EXCEPT ![1] = NewMappingManager]
    /\ response' = Answered("process_document", 0, {})
    /\ UNCHANGED <<files, pdfs, painted, sessions, fn_out>>
    /\ SessionFrame

\* one page of process_document: OCR and detection return, the entities get their
\* replacements; after the last page the entities and the field definitions are stored
ProcessPage ==
    /\ pc = "page"
    /\ \E raw_entities \in SessionDetections : \E draws \in PageDraws(raw_entities) :
         LET r    == ProcessEntities(mm[1], all_entities, raw_entities, draws, page)
             done == page >= Len(sessions[Sid].image_paths)
         IN  /\ mm' = [mm EXCEPT ![1] = IF done THEN NewMappingManager ELSE r.manager]
             /\ IF done
                THEN /\ sessions' = [sessions EXCEPT ![Sid] =
                            DictPut(DictPut(@, "entities", r.entities),
                                    "field_definitions", FieldDefinitions)]
                     /\ response' = Answered("process_document", 200, {})
                     /\ fn_out' = [stored |-> Len(r.entities), dropped |-> 0]
                     /\ pc' = "idle"
                     /\ page' = 0
                     /\ all_entities' = <<>>
                ELSE /\ pc' = "page"
                     /\ page' = page + 1
                     /\ all_entities' = r.entities
                     /\ UNCHANGED <<sessions, response, fn_out>>
    /\ UNCHANGED <<files, pdfs, painted>>
    /\ SessionFrame

\* process_document with the session stored on every failure too
ProcessFailsStoring ==
    /\ pc = "page"
    /\ response' = Answered("process_document", 500, {})
    /\ sessions' = [sessions EXCEPT ![Sid] = DictPut(@, "entities", all_entities)]
    /\ pc' = "idle"
    /\ page' = 0
    /\ all_entities' = <<>>
    /\ mm' = [mm EXCEPT ![1] = NewMappingManager]
    /\ fn_out' = [fn_out EXCEPT !.dropped = Len(all_entities)]
    /\ UNCHANGED <<files, pdfs, painted>>
    /\ SessionFrame

\* one page of process_document: OCR or detection raises, the request is answered 500
ProcessFails ==
    /\ pc = "page"
    /\ response' = Answered("process_document", 500, {})
    /\ pc' = "idle"
    /\ page' = 0
    /\ all_entities' = <<>>
    /\ mm' = [mm EXCEPT ![1] = NewMappingManager]
    /\ fn_out' = [fn_out EXCEPT !.dropped = Len(all_entities)]
    /\ UNCHANGED <<files, pdfs, painted, sessions>>
    /\ SessionFrame

\* the ids a reviewer may send: those of ApprovalChoices, none, or one of no entity
SessionApprovals(entities) == ApprovalChoices(entities) \cup { {}, {<<MaxPages + 1, 0>>} }

page_entities(entities, page_num) ==
    LET Here(e) == e.page_number = page_num
    IN  SelectSeq(entities, Here)

RECURSIVE MaskPages(_, _, _)
\* approve_and_mask, the loop "for page_num, image_path in enumerate(image_paths, 1)":
\* what apply_masks painted on the first n pages
MaskPages(entities_to_mask, size, n) ==
    IF n = 0 THEN <<>>
    ELSE MaskPages(entities_to_mask, size, n - 1)
           \o apply_masks(page_entities(entities_to_mask, n), size[1], size[2])

MaskedPaths(n) == [i \in 1..n |-> MaskedPath(Sid, i)]

\* POST /api/approve-and-mask answered 404 or 400: unknown session, no entities in
\* the session, or no stored entity among the approved ids
ApproveRefused ==
    /\ pc = "idle"
    /\ \E approved_entity_ids \in
            SessionApprovals(IF Sid \in DOMAIN sessions
                             THEN DictGet(sessions[Sid], "entities", <<>>) ELSE <<>>) :
         IF Sid \notin DOMAIN sessions
         THEN response' = Answered("approve_and_mask", 404, approved_entity_ids)
         ELSE LET all == DictGet(sessions[Sid], "entities", <<>>)
              IN  /\ \/ all = <<>>
                     \/ SelectApproved(all, approved_entity_ids) = <<>>
                  /\ response' = Answered("approve_and_mask", 400, approved_entity_ids)
    /\ UNCHANGED <<pc, page, all_entities, mm, files, pdfs, painted, sessions, fn_out>>
    /\ SessionFrame

\* POST /api/approve-and-mask: every page is masked, the PDF is composed and the
\* session records both
ApproveSession ==
    /\ pc = "idle"
    /\ Sid \in DOMAIN sessions
    /\ LET session == sessions[Sid]
           all     == DictGet(session, "entities", <<>>)
           n       == Len(session.image_paths)
       IN  /\ all # <<>>
           /\ \E approved_entity_ids \in SessionApprovals(all) :
                \E updates \in UpdateChoices(all) :
                  LET updated          == WithUpdates(all, approved_entity_ids, updates)
                      entities_to_mask == SelectApproved(updated, approved_entity_ids)
                  IN  /\ entities_to_mask # <<>>
                      /\ painted' = MaskPages(entities_to_mask, img_size, n)
                      /\ files' = files \cup Range(MaskedPaths(n))
                      /\ pdfs' = pdfs \cup {images_to_pdf(Sid, MaskedPaths(n))}
                      /\ sessions' = [sessions EXCEPT ![Sid] =
                             DictPut(DictPut(DictPut(@, "entities", updated),
                                             "masked_image_paths", MaskedPaths(n)),
                                     "masked_pdf_path", images_to_pdf(Sid, MaskedPaths(n)))]
                      /\ response' = Answered("approve_and_mask", 200, approved_entity_ids)
    /\ UNCHANGED <<pc, page, all_entities, mm, fn_out>>
    /\ SessionFrame

\* POST /api/approve-and-mask answered 500: apply_masks raises on page k, or
\* images_to_pdf raises after the last page (k past the last page)
ApproveFails ==
    /\ pc = "idle"
    /\ Sid \in DOMAIN sessions
    /\ LET session == sessions[Sid]
           all     == DictGet(session, "entities", <<>>)
           n       == Len(session.image_paths)
       IN  /\ all # <<>>
           /\ \E approved_entity_ids \in SessionApprovals(all) :
                \E updates \in UpdateChoices(all) : \E k \in 1..(n + 1) :
                  LET updated          == WithUpdates(all, approved_entity_ids, updates)
                      entities_to_mask == SelectApproved(updated, approved_entity_ids)
                  IN  /\ entities_to_mask # <<>>
                      /\ painted' = MaskPages(entities_to_mask, img_size, k - 1)
                      /\ files' = files \cup Range(MaskedPaths(k - 1))
                      /\ sessions' = [sessions EXCEPT ![Sid] = DictPut(@, "entities", updated)]
                      /\ response' = Answered("approve_and_mask", 500, approved_entity_ids)
    /\ UNCHANGED <<pc, page, all_entities, mm, pdfs, fn_out>>
    /\ SessionFrame

\* DELETE /api/session: the page images, the masked images and the masked PDF are
\* removed and the session is forgotten
DeleteSession ==
    /\ pc = "idle"
    /\ Sid \in DOMAIN sessions
    /\ LET session == sessions[Sid]
       IN  /\ files' = files \ (Range(session.image_paths)
                                  \cup Range(DictGet(session, "masked_image_paths", <<>>)))
           /\ pdfs' = IF "masked_pdf_path" \in DOMAIN session
                      THEN pdfs \ {session.masked_pdf_path} ELSE pdfs
    /\ sessions' = EmptyDict
    /\ response' = Answered("delete_session", 200, {})
    /\ fn_out' = [stored |-> -1, dropped |-> 0]
    /\ UNCHANGED <<pc, page, all_entities, mm, painted>>
    /\ SessionFrame

SessionNext ==
    \/ Upload
    \/ ProcessUnknown
    \/ BeginProcess
    \/ ProcessPage
    \/ ProcessFails
    \/ ApproveRefused
    \/ ApproveSession
    \/ ApproveFails
    \/ DeleteSession

SpecSession == SessionInit /\ [][SessionNext]_vars

-----------------------------------------------------------------------------
(* Claims about the session protocol, checked under SpecSession.                *)

\* the entities the session holds, <<>> for none
StoredEntities ==
    IF Sid \in DOMAIN sessions THEN DictGet(sessions[Sid], "entities", <<>>) ELSE <<>>

\* a process_document request is answered 500 by this step
ProcessAborts ==
    /\ pc = "page"
    /\ response'.op = "process_document"
    /\ response'.status = 500

\* C29: when the OCR or the detection call raises on a page of process_document, the
\* page is not tried again, the request is answered with a failure and ends, and the
\* session store is exactly what it was before the request: the entities found on
\* earlier pages are dropped with the locals of the request, and no page image, masked
\* image or PDF changes.
C29_AbortLeavesSessionUnchanged ==
    /\ [](pc = "page" => /\ response.op = "process_document"
                         /\ response.status = 0
                         /\ Sid \in DOMAIN sessions)
    /\ [][ /\ pc = "page" /\ pc' = "page" => /\ page' = page + 1
                                             /\ sessions' = sessions
           /\ ProcessAborts =>
                /\ sessions' = sessions
                /\ pc' = "idle"
                /\ all_entities' = <<>>
                /\ fn_out'.stored = fn_out.stored
                /\ files' = files /\ pdfs' = pdfs
         ]_vars

\* a request that had found entities on the first page failed on a later one, and the
\* session holds no entities
C29_Witness ==
    /\ response.op = "process_document"
    /\ response.status = 500
    /\ fn_out.dropped >= 1
    /\ Sid \in DOMAIN sessions
    /\ "entities" \notin DOMAIN sessions[Sid]
    /\ "field_definitions" \notin DOMAIN sessions[Sid]

\* the ids of the stored entities the request approves
ApprovedStored(approved_entity_ids) ==
    {StoredEntities[i].id : i \in 1..Len(StoredEntities)} \cap approved_entity_ids

\* the masked page images and the masked PDFs on disk
MaskedOnDisk == <<{f \in files : f.kind = "masked"}, pdfs>>

\* the masked_* fields of the session
MaskedFields(store) ==
    IF Sid \in DOMAIN store
    THEN {k \in DOMAIN store[Sid] : k \in {"masked_image_paths", "masked_pdf_path"}}
    ELSE {}

\* C30: a step that answers approve_and_mask produces the masked page images and the
\* masked PDF only when the session exists, a process_document call on it has succeeded
\* and stored at least one entity, and at least one stored entity id is among the
\* approved ids; it then paints exactly the stored entities whose ids are approved and
\* records the masked images and the PDF in the session.  When one of the conditions
\* fails the answer is 404 for an unknown session and 400 otherwise, and no masked
\* image, no masked PDF and no field of the session is written.
C30_SessionProtocolOrdering ==
    [][ response'.op = "approve_and_mask" =>
          LET approved == response'.approved
              known    == Sid \in DOMAIN sessions
              allowed  == /\ known
                          /\ fn_out.stored >= 1
                          /\ StoredEntities # <<>>
                          /\ ApprovedStored(approved) # {}
              n        == Len(sessions[Sid].image_paths)
          IN  /\ response'.status \in {200, 400, 404, 500}
              /\ response'.status = 200 =>
                    /\ allowed
                    /\ {painted'[i].id : i \in 1..Len(painted')} = ApprovedStored(approved)
                    /\ Len(painted') = Cardinality(ApprovedStored(approved))
                    /\ \A i \in 1..n : MaskedPath(Sid, i) \in files'
                    /\ sessions'[Sid].masked_pdf_path \in pdfs'
                    /\ sessions'[Sid].masked_image_paths = MaskedPaths(n)
              /\ response'.status = 500 => allowed
              /\ ~allowed =>
                    /\ response'.status = IF known THEN 400 ELSE 404
                    /\ MaskedOnDisk' = MaskedOnDisk
                    /\ files' = files
                    /\ sessions' = sessions
                    /\ MaskedFields(sessions') = MaskedFields(sessions)
      ]_vars

\* a session of two pages with entities on both was approved in part: the entities
\* painted are fewer than the stored ones, and both masked pages and the PDF exist
C30_Witness ==
    /\ response.op = "approve_and_mask"
    /\ response.status = 200
    /\ Len(painted) >= 1
    /\ Len(painted) < Len(StoredEntities)
    /\ Len(StoredEntities) > MaxMaskEntities
    /\ MaskedFields(sessions) = {"masked_image_paths", "masked_pdf_path"}
    /\ MaskedPath(Sid, 2) \in files

=============================================================================
